---- MODULE Spec2Model ----
(***************************************************************************)
(* Duplicate-aware, quota-balanced review collectors of the repository:    *)
(*   - ENGLISH/steam_scrapping/steam_scr3.py  (SmartSteamScraper, main)    *)
(*   - ENGLISH/metacritic/scrapper.py         (duplicate-safe Metacritic)  *)
(*   - ENGLISH/steam_scrapping/steam_scr2.py  (fetch_reviews_by_type)      *)
(* One run of a program is a behaviour: the prior table is on disk, the    *)
(* remote source answers every request with a response chosen from a       *)
(* bounded set, and the program walks games, categories, pages and the     *)
(* reviews of a page, one step per request and one per review.             *)
(* A review text is modelled by its length (words for Steam, characters    *)
(* for Metacritic), the only thing the filters read of it.                 *)
(* The sections after the collectors model the first scrapers              *)
(* (steam_scr.py, metacritic_scr.py), the text scripts of                  *)
(* ARABIC/DataCleaning/TranslatingToEnglish, the remote lookups of         *)
(* fix_genres.py and add_prices.py, balance.py and cleaning.py; there a    *)
(* text is a sequence of tokens and each script has its own specification. *)
(* The last sections model the neutral splitters row by row,               *)
(* remove_empty.py, two Metacritic runs at the same time, repeated         *)
(* scrape_game calls on one scraper and the genre cache of fix_genres.py.  *)
(***************************************************************************)
EXTENDS Integers, Sequences, FiniteSets, TLC

VARIABLES
    prog,              \* which script runs: "steam3", "meta", "steam2",
                       \* "steam1", "meta1", a text script, "fix_genres",
                       \* "add_prices", "balance", "cleaning", a splitter,
                       \* "remove_empty", "race", "fix_genres_main"
    pc,                \* position of the script
    run,               \* number of the current run of the script (1, 2)
    disk,              \* the CSV files: existing (input), new, final (outputs)
    remote,            \* fixed remote data for the replayed runs (SpecTwice)
    target_per_game,   \* SmartSteamScraper.target_per_game
    target_total,      \* TARGET_TOTAL of the Metacritic main
    existing_reviews,  \* the identity tracker: set of <<reviewer, game>>
    df_existing,       \* the prior table as loaded in memory
    game_stats,        \* SmartSteamScraper.game_stats
    gi,                \* index of the current game in GAME_IDS
    needed,            \* quotas of the current game
    new_reviews,       \* records accepted for the current game
    all_new_reviews,   \* records accepted in this run
    reviews,           \* local list of the current fetch
    pages_checked,     \* pages_checked / pages_fetched of the current fetch
    cursor,            \* pagination cursor of the current fetch
    duplicates_found,  \* duplicates counter of the current fetch
    review_type,       \* review_type / sentiment argument of the current fetch
    target_count,      \* target_count / num_reviews argument of the current fetch
    collected,         \* collected_pos, collected_neg of scrape_game
    max_pages_arg,     \* max_pages argument of steam_scr2.fetch_reviews_by_type
    todo,              \* reviews of the current page not yet processed
    requests,          \* observation: page requests issued by the current fetch
    last,              \* observation: the last request or review and its outcome
    data,              \* the input of a data-cleaning script: its table or texts
    mem                \* the locals of a data-cleaning script, by their names

vars == <<prog, pc, run, disk, remote, target_per_game, target_total,
          existing_reviews,
          df_existing, game_stats, gi, needed, new_reviews, all_new_reviews,
          reviews, pages_checked, cursor, duplicates_found, review_type,
          target_count, collected, max_pages_arg, todo, requests,
          last, data, mem>>

----------------------------------------------------------------------------
(* Bounds of the model *)

MaxPrior == 2      \* rows of the prior table
MaxBatch == 2      \* candidates on one remote page
MaxServe == 2      \* pages the remote serves with a fresh cursor, per fetch
MaxTarget == 4     \* largest target_per_game tried
MaxRuns == 2       \* runs of a script in succession

(* Program constants *)

max_pages == 50            \* steam_scr3.py _scrape_by_type
MIN_WORDS == 5             \* steam_scr3.py: len(review_text.split()) < 5
MIN_CHARS == 10            \* scrapper.py: len(review_text) <= 10
POSITIVE_MIN == 7          \* scrapper.py: positive keeps score >= 7
NEGATIVE_MAX == 4          \* scrapper.py: negative keeps score <= 4

GAME_IDS == <<"g1", "g2">>
Games == {GAME_IDS[i] : i \in 1..Len(GAME_IDS)}
Users == {"u1", "u2"}
STEAM_PLACEHOLDER == "N/A"
META_PLACEHOLDER == "Anonymous"
NoKey == "<missing>"       \* a JSON key / DOM node that is not there

Max(a, b) == IF a >= b THEN a ELSE b

SeqsUpTo(S, n) == UNION {[1..k -> S] : k \in 0..n}

NoFile == [exists |-> FALSE, rows |-> <<>>]
File(rows) == [exists |-> TRUE, rows |-> rows]

----------------------------------------------------------------------------
(* SmartSteamScraper (steam_scr3.py) *)

SteamRow(g, u, v, w) ==
    [game_name |-> g, user_id |-> u, review_text |-> w, voted_up |-> v]

\* __init__: the duplicate detection set built from the prior table
BuildExistingReviews(df) ==
    {<<df[i].user_id, df[i].game_name>> :
        i \in {j \in 1..Len(df) : df[j].user_id # STEAM_PLACEHOLDER}}

\* __init__: positive / negative counts per game of the prior table
BuildGameStats(df) ==
    [g \in {df[i].game_name : i \in 1..Len(df)} |->
        LET pos_count == Cardinality({i \in 1..Len(df) :
                            df[i].game_name = g /\ df[i].voted_up})
            total == Cardinality({i \in 1..Len(df) : df[i].game_name = g})
        IN [positive |-> pos_count, negative |-> total - pos_count]]

\* a tracker lookup with the pair the wrong way round
is_duplicate_swapped(user_id, game_name, tracker) ==
    <<game_name, user_id>> \in tracker

is_duplicate(user_id, game_name, tracker) ==
    <<user_id, game_name>> \in tracker

\* a planner that forgets to clamp at zero
calculate_needed_unclamped(game_name, stats, target) ==
    LET current_pos == IF game_name \in DOMAIN stats
                       THEN stats[game_name].positive ELSE 0
        current_neg == IF game_name \in DOMAIN stats
                       THEN stats[game_name].negative ELSE 0
    IN [positive |-> (target \div 2) - current_pos,
        negative |-> (target \div 2) - current_neg,
        current_positive |-> current_pos,
        current_negative |-> current_neg]

calculate_needed(game_name, stats, target) ==
    LET current_pos == IF game_name \in DOMAIN stats
                       THEN stats[game_name].positive ELSE 0
        current_neg == IF game_name \in DOMAIN stats
                       THEN stats[game_name].negative ELSE 0
        target_pos == target \div 2
        target_neg == target \div 2
    IN [positive |-> Max(0, target_pos - current_pos),
        negative |-> Max(0, target_neg - current_neg),
        current_positive |-> current_pos,
        current_negative |-> current_neg]

\* a loop body that never stops on a filled quota
Steam3ProcessReview_nobreak(review, revs, tracker, dups, game_name, target) ==
    IF review.steamid = NoKey
    THEN [reviews |-> revs, tracker |-> tracker, dups |-> dups,
          outcome |-> "badreview", brk |-> FALSE]
    ELSE IF is_duplicate(review.steamid, game_name, tracker)
    THEN [reviews |-> revs, tracker |-> tracker, dups |-> dups + 1,
          outcome |-> "duplicate", brk |-> FALSE]
    ELSE IF review.words < MIN_WORDS
    THEN [reviews |-> revs, tracker |-> tracker, dups |-> dups,
          outcome |-> "short", brk |-> FALSE]
    ELSE [reviews |-> Append(revs, SteamRow(game_name, review.steamid,
                                            review.voted_up, review.words)),
          tracker |-> tracker \cup {<<review.steamid, game_name>>},
          dups |-> dups, outcome |-> "accepted", brk |-> FALSE]

\* the body of the for loop of _scrape_by_type for one review of the page
Steam3ProcessReview(review, revs, tracker, dups, game_name, target) ==
    IF review.steamid = NoKey
    THEN [reviews |-> revs, tracker |-> tracker, dups |-> dups,
          outcome |-> "badreview", brk |-> FALSE]
    ELSE IF is_duplicate(review.steamid, game_name, tracker)
    THEN [reviews |-> revs, tracker |-> tracker, dups |-> dups + 1,
          outcome |-> "duplicate", brk |-> FALSE]
    ELSE IF review.words < MIN_WORDS
    THEN [reviews |-> revs, tracker |-> tracker, dups |-> dups,
          outcome |-> "short", brk |-> FALSE]
    ELSE LET revs2 == Append(revs, SteamRow(game_name, review.steamid,
                                            review.voted_up, review.words))
         IN [reviews |-> revs2,
             tracker |-> tracker \cup {<<review.steamid, game_name>>},
             dups |-> dups, outcome |-> "accepted",
             brk |-> Len(revs2) >= target]

\* a while condition that lets one page too many through
Steam3LoopCond_off(revs, target, pages) ==
    Len(revs) < target /\ pages <= max_pages

\* the while condition of _scrape_by_type
Steam3LoopCond(revs, target, pages) ==
    Len(revs) < target /\ pages < max_pages

\* the test on the cursor that ends the pagination
CursorEnds(cur) == cur = "" \/ cur = "*"

\* how a response is taken by the head of the while body: the break it
\* causes, or "page" when its reviews are processed
Outcome(resp) ==
    IF resp.kind = "raise" THEN "raise"
    ELSE IF resp.status # 200 THEN "http"
    ELSE IF ~resp.success THEN "nosuccess"
    ELSE IF resp.reviews = 0 THEN "empty"
    ELSE "page"

Failures == {"raise", "http", "nosuccess", "empty", "badreview"}

NoCand == [none |-> TRUE]

NoMem == [none |-> TRUE]

Observed(outcome, review) == [outcome |-> outcome, review |-> review]

NoLast == Observed("none", NoCand)

\* main: scraper = SmartSteamScraper(existing_file, target_per_game) and the
\* head of scrape_all_games
Steam3Construct ==
    /\ prog = "steam3" /\ pc = "start"
    /\ IF disk.existing.exists
       THEN /\ df_existing' = disk.existing.rows
            /\ existing_reviews' = BuildExistingReviews(disk.existing.rows)
            /\ game_stats' = BuildGameStats(disk.existing.rows)
       ELSE /\ df_existing' = <<>>
            /\ existing_reviews' = {}
            /\ game_stats' = BuildGameStats(<<>>)
    /\ all_new_reviews' = <<>>
    /\ gi' = 1
    /\ pc' = "game"
    /\ UNCHANGED <<data, mem, prog, run, disk, remote, target_per_game, target_total, needed,
                   new_reviews, reviews, pages_checked, cursor,
                   duplicates_found, review_type, target_count, collected,
                   max_pages_arg, todo, requests, last>>

\* the locals of a fresh _scrape_by_type call, up to the while test
Steam3Call(rtype, target) ==
    /\ review_type' = rtype
    /\ target_count' = target
    /\ reviews' = <<>>
    /\ cursor' = "*"
    /\ pages_checked' = 0
    /\ duplicates_found' = 0
    /\ todo' = 0
    /\ requests' = 0
    /\ last' = NoLast
    /\ pc' = IF Steam3LoopCond(<<>>, target, 0) THEN "loop" ELSE "return"

\* scrape_all_games: after scrape_game returned, go to the next game or to
\* the end of the loop
NextGame ==
    IF gi < Len(GAME_IDS) THEN gi' = gi + 1 /\ pc' = "game"
                          ELSE gi' = gi /\ pc' = "save"

\* scrape_game up to its first _scrape_by_type call (or its early return)
Steam3ScrapeGame ==
    /\ prog = "steam3" /\ pc = "game"
    /\ LET game_name == GAME_IDS[gi]
           n == calculate_needed(game_name, game_stats, target_per_game)
       IN /\ needed' = n
          /\ new_reviews' = <<>>
          /\ collected' = [positive |-> 0, negative |-> 0]
          /\ IF n.positive = 0 /\ n.negative = 0
             THEN /\ NextGame
                  /\ UNCHANGED <<reviews, cursor, pages_checked,
                                 duplicates_found, todo, requests, last,
                                 review_type, target_count>>
             ELSE /\ gi' = gi
                  /\ IF n.positive > 0
                     THEN Steam3Call("positive", n.positive)
                     ELSE Steam3Call("negative", n.negative)
    /\ UNCHANGED <<data, mem, prog, run, disk, remote, target_per_game, target_total, existing_reviews,
                   df_existing, game_stats, all_new_reviews, max_pages_arg>>

\* a page request that is tried a second time when its response fails
Steam3Request_retry(resp) ==
    /\ prog = "steam3" /\ pc = "loop"
    /\ requests' = requests + 1
    /\ last' = Observed(Outcome(resp), NoCand)
    /\ IF Outcome(resp) = "page"
       THEN todo' = resp.reviews /\ pc' = "for"
       ELSE todo' = 0 /\ pc' = IF requests = pages_checked THEN "loop"
                                                           ELSE "return"
    /\ UNCHANGED <<data, mem, prog, run, disk, remote, target_per_game, target_total,
                   existing_reviews, df_existing, game_stats, gi, needed,
                   new_reviews, all_new_reviews, reviews, pages_checked,
                   cursor, duplicates_found, review_type, target_count,
                   collected, max_pages_arg>>

\* _scrape_by_type: one page request and the tests on its response, up to
\* the for loop over its reviews; resp.reviews is the number of reviews
Steam3Request(resp) ==
    /\ prog = "steam3" /\ pc = "loop"
    /\ requests' = requests + 1
    /\ last' = Observed(Outcome(resp), NoCand)
    /\ IF Outcome(resp) = "page"
       THEN todo' = resp.reviews /\ pc' = "for"
       ELSE todo' = 0 /\ pc' = "return"
    /\ UNCHANGED <<data, mem, prog, run, disk, remote, target_per_game, target_total, existing_reviews,
                   df_existing, game_stats, gi, needed, new_reviews,
                   all_new_reviews, reviews, pages_checked, cursor,
                   duplicates_found, review_type, target_count, collected,
                   max_pages_arg>>

\* _scrape_by_type: one review of the page; after the last one (or the
\* break on a filled quota) the tail of the while body, where cur is the
\* cursor of the response
Steam3Review(review, cur) ==
    /\ prog = "steam3" /\ pc = "for"
    /\ LET r == Steam3ProcessReview(review, reviews, existing_reviews,
                                    duplicates_found, GAME_IDS[gi],
                                    target_count)
           endfor == r.brk \/ todo = 1
       IN /\ reviews' = r.reviews
          /\ existing_reviews' = r.tracker
          /\ duplicates_found' = r.dups
          /\ last' = Observed(r.outcome, review)
          /\ IF r.outcome = "badreview"
             THEN /\ pc' = "return"
                  /\ todo' = 0
                  /\ UNCHANGED <<pages_checked, cursor>>
             ELSE IF endfor
             THEN /\ todo' = 0
                  /\ pages_checked' = pages_checked + 1
                  /\ cursor' = cur
                  /\ pc' = IF CursorEnds(cur)
                              \/ ~Steam3LoopCond(r.reviews, target_count,
                                                 pages_checked + 1)
                           THEN "return" ELSE "loop"
             ELSE /\ todo' = todo - 1
                  /\ pc' = "for"
                  /\ UNCHANGED <<pages_checked, cursor>>
    /\ UNCHANGED <<data, mem, prog, run, disk, remote, target_per_game, target_total, df_existing,
                   game_stats, gi, needed, new_reviews, all_new_reviews,
                   review_type, target_count, collected, max_pages_arg,
                   requests>>

\* a scrape_game that starts the negative fetch whatever its quota is
Steam3Return_always ==
    /\ prog = "steam3" /\ pc = "return"
    /\ new_reviews' = new_reviews \o reviews
    /\ collected' = [collected EXCEPT ![review_type] = Len(reviews)]
    /\ IF review_type = "positive"
       THEN /\ Steam3Call("negative", needed.negative)
            /\ UNCHANGED <<gi, game_stats, all_new_reviews>>
       ELSE /\ LET game_name == GAME_IDS[gi]
                   old == IF game_name \in DOMAIN game_stats
                          THEN game_stats[game_name]
                          ELSE [positive |-> 0, negative |-> 0]
                   upd == [positive |-> old.positive + collected'.positive,
                           negative |-> old.negative + collected'.negative]
               IN game_stats' = [g \in DOMAIN game_stats \cup {game_name} |->
                                   IF g = game_name THEN upd ELSE game_stats[g]]
            /\ all_new_reviews' = all_new_reviews \o new_reviews'
            /\ NextGame
            /\ last' = NoLast
            /\ UNCHANGED <<reviews, cursor, pages_checked, duplicates_found,
                           todo, requests, review_type, target_count>>
    /\ UNCHANGED <<data, mem, prog, run, disk, remote, target_per_game, target_total, existing_reviews,
                   df_existing, needed, max_pages_arg>>

\* _scrape_by_type returns into scrape_game; scrape_game goes on with the
\* negative fetch or updates the stats and returns into scrape_all_games
Steam3Return ==
    /\ prog = "steam3" /\ pc = "return"
    /\ new_reviews' = new_reviews \o reviews
    /\ collected' = [collected EXCEPT ![review_type] = Len(reviews)]
    /\ IF review_type = "positive" /\ needed.negative > 0
       THEN /\ Steam3Call("negative", needed.negative)
            /\ UNCHANGED <<gi, game_stats, all_new_reviews>>
       ELSE /\ LET game_name == GAME_IDS[gi]
                   old == IF game_name \in DOMAIN game_stats
                          THEN game_stats[game_name]
                          ELSE [positive |-> 0, negative |-> 0]
                   upd == [positive |-> old.positive + collected'.positive,
                           negative |-> old.negative + collected'.negative]
               IN game_stats' = [g \in DOMAIN game_stats \cup {game_name} |->
                                   IF g = game_name THEN upd ELSE game_stats[g]]
            /\ all_new_reviews' = all_new_reviews \o new_reviews'
            /\ NextGame
            /\ last' = NoLast
            /\ UNCHANGED <<reviews, cursor, pages_checked, duplicates_found,
                           todo, requests, review_type, target_count>>
    /\ UNCHANGED <<data, mem, prog, run, disk, remote, target_per_game, target_total, existing_reviews,
                   df_existing, needed, max_pages_arg>>

\* main after scrape_all_games: save the new reviews and, when the user
\* answers yes, the prior table followed by the new reviews
Steam3Save(answer) ==
    /\ prog = "steam3" /\ pc = "save"
    /\ IF Len(all_new_reviews) > 0
       THEN IF answer = "yes"
            THEN IF disk.existing.exists
                 THEN /\ disk' = [disk EXCEPT
                            !.new = File(all_new_reviews),
                            !.final = File(disk.existing.rows \o all_new_reviews)]
                      /\ pc' = "done"
                 ELSE /\ disk' = [disk EXCEPT !.new = File(all_new_reviews)]
                      /\ pc' = "raised"
            ELSE /\ disk' = [disk EXCEPT !.new = File(all_new_reviews)]
                 /\ pc' = "done"
       ELSE /\ disk' = disk
            /\ pc' = "done"
    /\ UNCHANGED <<data, mem, prog, run, remote, target_per_game, target_total, existing_reviews,
                   df_existing, game_stats, gi, needed, new_reviews,
                   all_new_reviews, reviews, pages_checked, cursor,
                   duplicates_found, review_type, target_count, collected,
                   max_pages_arg, todo, requests, last>>

----------------------------------------------------------------------------
(* Duplicate-safe Metacritic scraper (ENGLISH/metacritic/scrapper.py) *)

MetaRow(g, a, score, chars) ==
    [game_name |-> g, author |-> a, review_text |-> chars,
     user_score |-> score, voted_up |-> score >= POSITIVE_MIN]

\* load_existing_reviews: every (author, game) pair of the prior table
MetaLoadPairs(df) == {<<df[i].author, df[i].game_name>> : i \in 1..Len(df)}

\* is_duplicate of scrapper.py
meta_is_duplicate(author, game_name, tracker) ==
    <<author, game_name>> \in tracker

\* a sentiment filter whose positive threshold is one too low
SentimentSkips_wide(sentiment, score) ==
    \/ sentiment = "positive" /\ score < POSITIVE_MIN - 1
    \/ sentiment = "negative" /\ score > NEGATIVE_MAX

\* the sentiment filter of scrape_reviews_by_sentiment: TRUE when the
\* review is skipped
SentimentSkips(sentiment, score) ==
    \/ sentiment = "positive" /\ score < POSITIVE_MIN
    \/ sentiment = "negative" /\ score > NEGATIVE_MAX

\* the body of the for loop of scrape_reviews_by_sentiment for one review
\* div: its score span (has_score: there is one and int() parses it), the
\* length of its quote and its author link
MetaProcessReview(review, revs, tracker, dups, game_name, sentiment, num) ==
    IF ~review.has_score
    THEN [reviews |-> revs, tracker |-> tracker, dups |-> dups,
          outcome |-> "noscore", brk |-> FALSE]
    ELSE IF SentimentSkips(sentiment, review.score)
    THEN [reviews |-> revs, tracker |-> tracker, dups |-> dups,
          outcome |-> "category", brk |-> FALSE]
    ELSE IF review.chars <= MIN_CHARS
    THEN [reviews |-> revs, tracker |-> tracker, dups |-> dups,
          outcome |-> "short", brk |-> FALSE]
    ELSE LET author == IF review.author = NoKey THEN META_PLACEHOLDER
                       ELSE review.author
         IN IF meta_is_duplicate(author, game_name, tracker)
            THEN [reviews |-> revs, tracker |-> tracker, dups |-> dups + 1,
                  outcome |-> "duplicate", brk |-> FALSE]
            ELSE LET revs2 == Append(revs, MetaRow(game_name, author,
                                               review.score, review.chars))
                 IN [reviews |-> revs2,
                     tracker |-> tracker \cup {<<author, game_name>>},
                     dups |-> dups, outcome |-> "accepted",
                     brk |-> Len(revs2) >= num]

\* main: TARGET_NEW and the per-game quotas
MetaPlan(total, existing_count) ==
    LET target_new == total - existing_count
        reviews_per_game == target_new \div Len(GAME_IDS)
        positive_per_game == reviews_per_game \div 2
    IN [target_new |-> target_new,
        positive |-> positive_per_game,
        negative |-> reviews_per_game - positive_per_game]

\* main up to the game loop: load_existing_reviews and the planning
MetaStart ==
    /\ prog = "meta" /\ pc = "start"
    /\ IF disk.existing.exists
       THEN /\ df_existing' = disk.existing.rows
            /\ existing_reviews' = existing_reviews
                                   \cup MetaLoadPairs(disk.existing.rows)
       ELSE /\ df_existing' = <<>>
            /\ existing_reviews' = existing_reviews
    /\ LET plan == MetaPlan(target_total, Len(df_existing'))
       IN /\ needed' = [positive |-> plan.positive, negative |-> plan.negative,
                        current_positive |-> 0, current_negative |-> 0]
          /\ pc' = IF plan.target_new <= 0 THEN "done" ELSE "game"
    /\ all_new_reviews' = <<>>
    /\ gi' = 1
    /\ UNCHANGED <<data, mem, prog, run, disk, remote, target_per_game, target_total,
                   game_stats, new_reviews, reviews, pages_checked, cursor,
                   duplicates_found, review_type, target_count, collected,
                   max_pages_arg, todo, requests, last>>

\* the locals of a fresh scrape_reviews_by_sentiment call
MetaCall(sentiment, num) ==
    /\ review_type' = sentiment
    /\ target_count' = num
    /\ reviews' = <<>>
    /\ duplicates_found' = 0
    /\ todo' = 0
    /\ requests' = 0
    /\ last' = NoLast
    /\ pc' = "loop"

\* main: search_metacritic for the current game, then the positive scrape
MetaSearch(found) ==
    /\ prog = "meta" /\ pc = "game"
    /\ new_reviews' = <<>>
    /\ IF found
       THEN /\ MetaCall("positive", needed.positive)
            /\ gi' = gi
       ELSE /\ NextGame
            /\ UNCHANGED <<reviews, duplicates_found, todo, requests, last,
                           review_type, target_count>>
    /\ UNCHANGED <<data, mem, prog, run, disk, remote, target_per_game, target_total,
                   existing_reviews, df_existing, game_stats, needed,
                   all_new_reviews, pages_checked, cursor, collected,
                   max_pages_arg>>

\* scrape_reviews_by_sentiment: the request of the review page
MetaRequest(resp) ==
    /\ prog = "meta" /\ pc = "loop"
    /\ requests' = requests + 1
    /\ IF resp.kind = "raise"
       THEN last' = Observed("raise", NoCand) /\ todo' = 0 /\ pc' = "return"
       ELSE IF resp.status # 200
       THEN last' = Observed("http", NoCand) /\ todo' = 0 /\ pc' = "return"
       ELSE IF resp.reviews = 0
       THEN last' = Observed("empty", NoCand) /\ todo' = 0 /\ pc' = "return"
       ELSE last' = Observed("page", NoCand) /\ todo' = resp.reviews /\ pc' = "for"
    /\ UNCHANGED <<data, mem, prog, run, disk, remote, target_per_game, target_total,
                   existing_reviews, df_existing, game_stats, gi, needed,
                   new_reviews, all_new_reviews, reviews, pages_checked,
                   cursor, duplicates_found, review_type, target_count,
                   collected, max_pages_arg>>

\* scrape_reviews_by_sentiment: one review div of the page
MetaReview(review) ==
    /\ prog = "meta" /\ pc = "for"
    /\ LET r == MetaProcessReview(review, reviews, existing_reviews,
                                  duplicates_found, GAME_IDS[gi], review_type,
                                  target_count)
       IN /\ reviews' = r.reviews
          /\ existing_reviews' = r.tracker
          /\ duplicates_found' = r.dups
          /\ last' = Observed(r.outcome, review)
          /\ IF r.brk \/ todo = 1
             THEN todo' = 0 /\ pc' = "return"
             ELSE todo' = todo - 1 /\ pc' = "for"
    /\ UNCHANGED <<data, mem, prog, run, disk, remote, target_per_game, target_total,
                   df_existing, game_stats, gi, needed, new_reviews,
                   all_new_reviews, pages_checked, cursor, review_type,
                   target_count, collected, max_pages_arg, requests>>

\* a main that writes the merged table at the end of every game
MetaReturn_saving ==
    /\ prog = "meta" /\ pc = "return"
    /\ new_reviews' = new_reviews \o reviews
    /\ IF review_type = "positive"
       THEN /\ MetaCall("negative", needed.negative)
            /\ UNCHANGED <<gi, all_new_reviews, disk>>
       ELSE /\ all_new_reviews' = all_new_reviews \o new_reviews'
            /\ disk' = [disk EXCEPT
                           !.final = File(df_existing \o all_new_reviews')]
            /\ IF Len(all_new_reviews') >= target_total - Len(df_existing)
               THEN gi' = gi /\ pc' = "save"
               ELSE NextGame
            /\ last' = NoLast
            /\ UNCHANGED <<reviews, duplicates_found, todo, requests,
                           review_type, target_count>>
    /\ UNCHANGED <<data, mem, prog, run, remote, target_per_game, target_total,
                   existing_reviews, df_existing, game_stats, needed,
                   pages_checked, cursor, collected, max_pages_arg>>

\* scrape_reviews_by_sentiment returns into main: the negative scrape after
\* the positive one, the end of the loop body after the negative one
MetaReturn ==
    /\ prog = "meta" /\ pc = "return"
    /\ new_reviews' = new_reviews \o reviews
    /\ IF review_type = "positive"
       THEN /\ MetaCall("negative", needed.negative)
            /\ UNCHANGED <<gi, all_new_reviews>>
       ELSE /\ all_new_reviews' = all_new_reviews \o new_reviews'
            /\ IF Len(all_new_reviews') >= target_total - Len(df_existing)
               THEN gi' = gi /\ pc' = "save"
               ELSE NextGame
            /\ last' = NoLast
            /\ UNCHANGED <<reviews, duplicates_found, todo, requests,
                           review_type, target_count>>
    /\ UNCHANGED <<data, mem, prog, run, disk, remote, target_per_game, target_total,
                   existing_reviews, df_existing, game_stats, needed,
                   pages_checked, cursor, collected, max_pages_arg>>

\* a merge that puts the new reviews in front of the prior table
MetaSave_swapped ==
    /\ prog = "meta" /\ pc = "save"
    /\ IF Len(all_new_reviews) > 0
       THEN disk' = [disk EXCEPT !.final = File(all_new_reviews \o df_existing)]
       ELSE disk' = disk
    /\ pc' = "done"
    /\ UNCHANGED <<data, mem, prog, run, remote, target_per_game, target_total,
                   existing_reviews, df_existing, game_stats, gi, needed,
                   new_reviews, all_new_reviews, reviews, pages_checked,
                   cursor, duplicates_found, review_type, target_count,
                   collected, max_pages_arg, todo, requests, last>>

\* main after the game loop: the prior table followed by the new reviews
MetaSave ==
    /\ prog = "meta" /\ pc = "save"
    /\ IF Len(all_new_reviews) > 0
       THEN disk' = [disk EXCEPT !.final = File(df_existing \o all_new_reviews)]
       ELSE disk' = disk
    /\ pc' = "done"
    /\ UNCHANGED <<data, mem, prog, run, remote, target_per_game, target_total,
                   existing_reviews, df_existing, game_stats, gi, needed,
                   new_reviews, all_new_reviews, reviews, pages_checked,
                   cursor, duplicates_found, review_type, target_count,
                   collected, max_pages_arg, todo, requests, last>>

----------------------------------------------------------------------------
(* The remote Steam review API and the prior Steam table, bounded *)

\* the reviewers the remote source has for a game
RemoteUsers(game_name) == IF game_name = GAME_IDS[1] THEN Users ELSE {"u1"}

Matching(rtype) == rtype = "positive"

\* a review of an API response: its author's steamid (or no such key), the
\* number of words of its text and its vote
SteamCands(game_name, rtype) ==
    [steamid : RemoteUsers(game_name), words : {MIN_WORDS},
     voted_up : {Matching(rtype)}]
    \cup {[steamid |-> "u1", words |-> MIN_WORDS, voted_up |-> ~Matching(rtype)],
          [steamid |-> "u1", words |-> MIN_WORDS - 1, voted_up |-> Matching(rtype)],
          [steamid |-> NoKey, words |-> MIN_WORDS, voted_up |-> Matching(rtype)]}

Cursors == {"", "*", "c1"}

RespRaise == [kind |-> "raise", status |-> 0, success |-> FALSE, reviews |-> 0]
RespHttp == [kind |-> "ok", status |-> 500, success |-> FALSE, reviews |-> 0]
RespNoSuccess == [kind |-> "ok", status |-> 200, success |-> FALSE, reviews |-> 0]
RespPage(n) == [kind |-> "ok", status |-> 200, success |-> TRUE, reviews |-> n]

SteamResponses ==
    {RespRaise, RespHttp, RespNoSuccess} \cup {RespPage(n) : n \in 0..MaxBatch}

\* the remote serves at most MaxServe pages to one fetch, and the cursor of
\* a response is read only at the end of its page
Serveable(cur, endfor) ==
    /\ cur = "c1" => pages_checked + 1 < MaxServe
    /\ ~endfor => cur = ""

SteamPriorRows ==
    {SteamRow(g, "u1", TRUE, MIN_WORDS) : g \in Games}
    \cup {SteamRow(GAME_IDS[1], STEAM_PLACEHOLDER, FALSE, MIN_WORDS)}

SteamPriorTables == SeqsUpTo(SteamPriorRows, MaxPrior)

Targets == {0, MaxTarget \div 2, MaxTarget}

NoDisk == [existing |-> NoFile, new |-> NoFile, final |-> NoFile]

\* the memory of a script before it starts
InitFetch ==
    /\ existing_reviews = {}
    /\ df_existing = <<>>
    /\ game_stats = BuildGameStats(<<>>)
    /\ gi = 1
    /\ needed = [positive |-> 0, negative |-> 0,
                 current_positive |-> 0, current_negative |-> 0]
    /\ new_reviews = <<>>
    /\ all_new_reviews = <<>>
    /\ reviews = <<>>
    /\ pages_checked = 0
    /\ cursor = "*"
    /\ duplicates_found = 0
    /\ review_type = "none"
    /\ collected = [positive |-> 0, negative |-> 0]
    /\ todo = 0
    /\ requests = 0
    /\ last = NoLast

InitLocals == InitFetch /\ pc = "start" /\ data = <<>> /\ mem = NoMem

InitMemory == InitLocals /\ target_count = 0

InitSteam3 ==
    /\ prog = "steam3"
    /\ run = 1
    /\ disk \in {[NoDisk EXCEPT !.existing = f] :
                    f \in {NoFile} \cup {File(t) : t \in SteamPriorTables}}
    /\ remote = <<>>
    /\ target_per_game \in Targets
    /\ target_total = 0
    /\ max_pages_arg = 0
    /\ InitMemory

\* the reviews and cursors the remote source may send to the current fetch
Steam3Remote ==
    \E review \in SteamCands(GAME_IDS[gi], review_type), cur \in Cursors :
        /\ Serveable(cur, todo = 1 \/ Steam3ProcessReview(review, reviews,
                         existing_reviews, duplicates_found, GAME_IDS[gi],
                         target_count).brk)
        /\ Steam3Review(review, cur)

(* The Metacritic review page and the prior Metacritic table, bounded *)

\* a review div: its score (or no score span), the length of its quote and
\* its author link (or none)
MetaCands(game_name) ==
    [has_score : {TRUE},
     score : {NEGATIVE_MAX, NEGATIVE_MAX + 1, POSITIVE_MIN - 1, POSITIVE_MIN},
     chars : {MIN_CHARS + 1}, author : RemoteUsers(game_name) \cup {NoKey}]
    \cup {[has_score |-> TRUE, score |-> POSITIVE_MIN, chars |-> MIN_CHARS,
           author |-> "u1"],
          [has_score |-> TRUE, score |-> NEGATIVE_MAX, chars |-> MIN_CHARS,
           author |-> "u1"],
          [has_score |-> FALSE, score |-> 0, chars |-> MIN_CHARS + 1,
           author |-> "u1"]}

MetaResponses ==
    {RespRaise, RespHttp} \cup {RespPage(n) : n \in 0..MaxBatch}

MetaPriorRows ==
    {MetaRow(g, "u1", POSITIVE_MIN, MIN_CHARS + 1) : g \in Games}
    \cup {MetaRow(g, META_PLACEHOLDER, NEGATIVE_MAX, MIN_CHARS + 1) : g \in Games}

MetaPriorTables == SeqsUpTo(MetaPriorRows, MaxPrior)

\* TARGET_TOTAL is 2500 in main; the model tries totals of the size of its
\* prior tables: one that the prior table can reach, one that leaves a
\* quota of two for a category
MetaTotals == {MaxPrior, 3 * MaxPrior}

InitMeta ==
    /\ prog = "meta"
    /\ run = 1
    /\ disk \in {[NoDisk EXCEPT !.existing = f] :
                    f \in {NoFile} \cup {File(t) : t \in MetaPriorTables}}
    /\ remote = <<>>
    /\ target_per_game = 0
    /\ target_total \in MetaTotals
    /\ max_pages_arg = 0
    /\ InitMemory

\* the review divs the Metacritic page of the current game may hold
MetaRemote == \E review \in MetaCands(GAME_IDS[gi]) : MetaReview(review)

Init == InitSteam3 \/ InitMeta

Next ==
    \/ Steam3Construct
    \/ Steam3ScrapeGame
    \/ \E resp \in SteamResponses : Steam3Request(resp)
    \/ Steam3Remote
    \/ Steam3Return
    \/ \E answer \in {"yes", "no"} : Steam3Save(answer)
    \/ MetaStart
    \/ \E found \in BOOLEAN : MetaSearch(found)
    \/ \E resp \in MetaResponses : MetaRequest(resp)
    \/ MetaRemote
    \/ MetaReturn
    \/ MetaSave

Spec == Init /\ [][Next]_vars

----------------------------------------------------------------------------
(* Two runs in succession against a remote source that does not change *)

Types == {"positive", "negative"}

\* the remote data: for every game and category the reviewers whose review
\* the single page of that listing holds, in page order
TwiceRemotes == [Games -> [Types -> SeqsUpTo(Users, 1)]]

RemotePage == remote[GAME_IDS[gi]][review_type]

\* the review the remote holds of a reviewer in a category
TwiceSteamCand(user, rtype) ==
    [steamid |-> user, words |-> MIN_WORDS, voted_up |-> Matching(rtype)]

TwiceMetaCand(user, sentiment) ==
    [has_score |-> TRUE,
     score |-> IF sentiment = "positive" THEN POSITIVE_MIN ELSE NEGATIVE_MAX,
     chars |-> MIN_CHARS + 1, author |-> user]

InitTwice ==
    /\ prog \in {"steam3", "meta"}
    /\ run = 1
    /\ disk \in {[NoDisk EXCEPT !.existing = f] :
                    f \in {NoFile, File(<<>>)}
                          \cup (IF prog = "steam3"
                                THEN {File(<<r>>) : r \in SteamPriorRows}
                                ELSE {File(<<r>>) : r \in MetaPriorRows})}
    /\ remote \in TwiceRemotes
    /\ target_per_game = IF prog = "steam3" THEN MaxTarget ELSE 0
    /\ target_total = IF prog = "meta" THEN 3 * MaxPrior ELSE 0
    /\ max_pages_arg = 0
    /\ InitMemory

\* the fixed remote answers the request of the current fetch
TwiceSteamRequest ==
    /\ prog = "steam3" /\ pc = "loop"
    /\ Steam3Request(RespPage(IF pages_checked = 0 THEN Len(RemotePage)
                              ELSE 0))

TwiceSteamReview ==
    /\ prog = "steam3" /\ pc = "for"
    /\ todo \in 1..Len(RemotePage)
    /\ Steam3Review(TwiceSteamCand(RemotePage[Len(RemotePage) - todo + 1],
                                   review_type), "")

TwiceMetaRequest ==
    /\ prog = "meta" /\ pc = "loop"
    /\ MetaRequest(RespPage(Len(RemotePage)))

TwiceMetaReview ==
    /\ prog = "meta" /\ pc = "for"
    /\ todo \in 1..Len(RemotePage)
    /\ MetaReview(TwiceMetaCand(RemotePage[Len(RemotePage) - todo + 1],
                                review_type))

\* the script ended and is started again: a new process with fresh memory,
\* the files as the first run left them
Restart ==
    /\ pc = "done" /\ run < MaxRuns
    /\ run' = run + 1
    /\ pc' = "start"
    /\ existing_reviews' = {}
    /\ df_existing' = <<>>
    /\ game_stats' = BuildGameStats(<<>>)
    /\ gi' = 1
    /\ needed' = [positive |-> 0, negative |-> 0,
                  current_positive |-> 0, current_negative |-> 0]
    /\ new_reviews' = <<>>
    /\ all_new_reviews' = <<>>
    /\ reviews' = <<>>
    /\ pages_checked' = 0
    /\ cursor' = "*"
    /\ duplicates_found' = 0
    /\ review_type' = "none"
    /\ target_count' = 0
    /\ collected' = [positive |-> 0, negative |-> 0]
    /\ todo' = 0
    /\ requests' = 0
    /\ last' = NoLast
    /\ UNCHANGED <<data, mem, prog, disk, remote, target_per_game, target_total,
                   max_pages_arg>>

NextTwice ==
    \/ Steam3Construct
    \/ Steam3ScrapeGame
    \/ TwiceSteamRequest
    \/ TwiceSteamReview
    \/ Steam3Return
    \/ \E answer \in {"yes", "no"} : Steam3Save(answer)
    \/ MetaStart
    \/ MetaSearch(TRUE)
    \/ TwiceMetaRequest
    \/ TwiceMetaReview
    \/ MetaReturn
    \/ MetaSave
    \/ Restart

SpecTwice == InitTwice /\ [][NextTwice]_vars

----------------------------------------------------------------------------
(* fetch_reviews_by_type of steam_scr2.py, called with bounded arguments *)

MIN_CHARS2 == 10           \* steam_scr2.py: len(review_text) > 10
MaxPagesArg == 3           \* largest max_pages argument tried

\* the while condition of fetch_reviews_by_type
Steam2LoopCond(revs, num_reviews, pages, maxp) ==
    Len(revs) < num_reviews /\ pages < maxp

\* the body of the for loop of fetch_reviews_by_type for one review
Steam2ProcessReview(review, revs, num_reviews) ==
    IF review.chars > MIN_CHARS2
    THEN IF review.steamid = NoKey
         THEN [reviews |-> revs, outcome |-> "badreview", brk |-> FALSE]
         ELSE LET revs2 == Append(revs, [user_id |-> review.steamid,
                                         review_text |-> review.chars,
                                         voted_up |-> review.voted_up])
              IN [reviews |-> revs2, outcome |-> "accepted",
                  brk |-> Len(revs2) >= num_reviews]
    ELSE [reviews |-> revs, outcome |-> "short", brk |-> FALSE]

\* the call fetch_reviews_by_type(app_id, review_type, num_reviews,
\* max_pages) up to the while test
Steam2Call ==
    /\ prog = "steam2" /\ pc = "start"
    /\ reviews' = <<>>
    /\ cursor' = "*"
    /\ pages_checked' = 0
    /\ pc' = IF Steam2LoopCond(<<>>, target_count, 0, max_pages_arg)
             THEN "loop" ELSE "return"
    /\ UNCHANGED <<data, mem, prog, run, disk, remote, target_per_game, target_total,
                   existing_reviews, df_existing, game_stats, gi, needed,
                   new_reviews, all_new_reviews, duplicates_found,
                   review_type, target_count, collected, max_pages_arg, todo,
                   requests, last>>

\* fetch_reviews_by_type: one page request and the tests on its response
Steam2Request(resp) ==
    /\ prog = "steam2" /\ pc = "loop"
    /\ requests' = requests + 1
    /\ last' = Observed(Outcome(resp), NoCand)
    /\ IF Outcome(resp) = "page"
       THEN todo' = resp.reviews /\ pc' = "for"
       ELSE todo' = 0 /\ pc' = "return"
    /\ UNCHANGED <<data, mem, prog, run, disk, remote, target_per_game, target_total,
                   existing_reviews, df_existing, game_stats, gi, needed,
                   new_reviews, all_new_reviews, reviews, pages_checked,
                   cursor, duplicates_found, review_type, target_count,
                   collected, max_pages_arg>>

\* fetch_reviews_by_type: one review of the page; after the last one (or
\* the break on a filled quota) the tail of the while body
Steam2Review(review, cur) ==
    /\ prog = "steam2" /\ pc = "for"
    /\ LET r == Steam2ProcessReview(review, reviews, target_count)
           endfor == r.brk \/ todo = 1
       IN /\ reviews' = r.reviews
          /\ last' = Observed(r.outcome, review)
          /\ IF r.outcome = "badreview"
             THEN /\ pc' = "return"
                  /\ todo' = 0
                  /\ UNCHANGED <<pages_checked, cursor>>
             ELSE IF endfor
             THEN /\ todo' = 0
                  /\ pages_checked' = pages_checked + 1
                  /\ cursor' = cur
                  /\ pc' = IF CursorEnds(cur)
                              \/ ~Steam2LoopCond(r.reviews, target_count,
                                         pages_checked + 1, max_pages_arg)
                           THEN "return" ELSE "loop"
             ELSE /\ todo' = todo - 1
                  /\ pc' = "for"
                  /\ UNCHANGED <<pages_checked, cursor>>
    /\ UNCHANGED <<data, mem, prog, run, disk, remote, target_per_game, target_total,
                   existing_reviews, df_existing, game_stats, gi, needed,
                   new_reviews, all_new_reviews, duplicates_found,
                   review_type, target_count, collected, max_pages_arg,
                   requests>>

----------------------------------------------------------------------------
(* Pagination against a source that never runs out of pages *)

\* the reviews of the endless source: one too short and one acceptable
PagesSteamCands(rtype) ==
    {[steamid |-> "u1", words |-> MIN_WORDS - 1, voted_up |-> Matching(rtype)],
     [steamid |-> "u1", words |-> MIN_WORDS, voted_up |-> Matching(rtype)]}

PagesSteam2Cands ==
    {[steamid |-> "u1", chars |-> MIN_CHARS2, voted_up |-> TRUE],
     [steamid |-> "u1", chars |-> MIN_CHARS2 + 1, voted_up |-> TRUE],
     [steamid |-> NoKey, chars |-> MIN_CHARS2 + 1, voted_up |-> TRUE]}

PagesResponses == {RespHttp, RespNoSuccess, RespRaise, RespPage(0), RespPage(1)}

InitPages ==
    /\ prog \in {"steam3", "steam2"}
    /\ run = 1
    /\ disk = [NoDisk EXCEPT !.existing = File(<<>>)]
    /\ remote = <<>>
    /\ target_per_game = IF prog = "steam3" THEN MaxTarget ELSE 0
    /\ target_total = 0
    /\ max_pages_arg \in IF prog = "steam2" THEN 1..MaxPagesArg ELSE {0}
    /\ InitLocals
    /\ target_count \in IF prog = "steam2" THEN 0..(MaxTarget \div 2) ELSE {0}

PagesSteam3Request == \E resp \in PagesResponses : Steam3Request(resp)

PagesSteam3Review ==
    /\ prog = "steam3" /\ pc = "for"
    /\ \E review \in PagesSteamCands(review_type), cur \in Cursors :
           Steam3Review(review, cur)

PagesSteam2Request == \E resp \in PagesResponses : Steam2Request(resp)

PagesSteam2Review ==
    \E review \in PagesSteam2Cands, cur \in Cursors : Steam2Review(review, cur)

NextPages ==
    \/ Steam3Construct
    \/ Steam3ScrapeGame
    \/ PagesSteam3Request
    \/ PagesSteam3Review
    \/ Steam3Return
    \/ Steam3Save("no")
    \/ Steam2Call
    \/ PagesSteam2Request
    \/ PagesSteam2Review

SpecPages == InitPages /\ [][NextPages]_vars

----------------------------------------------------------------------------
(* The quota planner on larger prior tables and targets *)

MaxPlanPrior == 3          \* rows of the prior table
MaxPlanTarget == 10        \* largest target_per_game tried

PlanPriorRows ==
    {SteamRow(g, STEAM_PLACEHOLDER, v, MIN_WORDS) : g \in Games, v \in BOOLEAN}

InitPlanner ==
    /\ prog = "steam3"
    /\ run = 1
    /\ disk \in {[NoDisk EXCEPT !.existing = f] :
                    f \in {NoFile} \cup {File(t) :
                              t \in SeqsUpTo(PlanPriorRows, MaxPlanPrior)}}
    /\ remote = <<>>
    /\ target_per_game \in 0..MaxPlanTarget
    /\ target_total = 0
    /\ max_pages_arg = 0
    /\ InitMemory

PlannerRequest == Steam3Request(RespHttp)

NextPlanner ==
    \/ Steam3Construct
    \/ Steam3ScrapeGame
    \/ PlannerRequest
    \/ Steam3Return

SpecPlanner == InitPlanner /\ [][NextPlanner]_vars

----------------------------------------------------------------------------
(* The first scrapers: ENGLISH/steam_scrapping/steam_scr.py and            *)
(* metacritic/metacritic_scr.py. No prior table, no identity tracker.      *)

MIN_CHARS1 == 10           \* steam_scr.py: len(review_text) > 10
MIN_CHARS0 == 10           \* metacritic_scr.py: len(review_text) <= 10
MaxFirstTotal == 8         \* largest TOTAL_REVIEWS tried

\* main of steam_scr.py and of metacritic_scr.py: the quotas per game
FirstPlan(total) ==
    LET reviews_per_game == total \div Len(GAME_IDS)
        positive_per_game == reviews_per_game \div 2
    IN [positive |-> positive_per_game,
        negative |-> reviews_per_game - positive_per_game,
        current_positive |-> 0, current_negative |-> 0]

\* main: the loop body stamps the game on the reviews of both fetches
WithGame(rows, game_name) ==
    [i \in 1..Len(rows) |-> [game_name |-> game_name] @@ rows[i]]

\* the while condition of steam_scr.fetch_reviews_by_type
Steam1LoopCond(revs, num_reviews) == Len(revs) < num_reviews

\* steam_scr.py: the test on the cursor that ends the pagination
Cursor1Ends(cur) == cur = ""

\* the body of the for loop of steam_scr.fetch_reviews_by_type
Steam1ProcessReview(review, revs, num_reviews) ==
    IF review.chars > MIN_CHARS1
    THEN IF review.steamid = NoKey
         THEN [reviews |-> revs, outcome |-> "badreview", brk |-> FALSE]
         ELSE LET revs2 == Append(revs, [user_id |-> review.steamid,
                                         review_text |-> review.chars,
                                         voted_up |-> review.voted_up])
              IN [reviews |-> revs2, outcome |-> "accepted",
                  brk |-> Len(revs2) >= num_reviews]
    ELSE [reviews |-> revs, outcome |-> "short", brk |-> FALSE]

\* main of steam_scr.py up to the game loop
Steam1Start ==
    /\ prog = "steam1" /\ pc = "start"
    /\ needed' = FirstPlan(target_total)
    /\ all_new_reviews' = <<>>
    /\ gi' = 1
    /\ pc' = "game"
    /\ UNCHANGED <<data, mem, prog, run, disk, remote, target_per_game, target_total,
                   existing_reviews, df_existing, game_stats, new_reviews,
                   reviews, pages_checked, cursor, duplicates_found,
                   review_type, target_count, collected, max_pages_arg, todo,
                   requests, last>>

\* the locals of a fresh fetch_reviews_by_type call, up to the while test
Steam1Call(rtype, num_reviews) ==
    /\ review_type' = rtype
    /\ target_count' = num_reviews
    /\ reviews' = <<>>
    /\ cursor' = "*"
    /\ todo' = 0
    /\ last' = NoLast
    /\ pc' = IF Steam1LoopCond(<<>>, num_reviews) THEN "loop" ELSE "return"

\* main: fetch_game_details (which swallows its errors), then the positive
\* fetch of the game
Steam1Game ==
    /\ prog = "steam1" /\ pc = "game"
    /\ new_reviews' = <<>>
    /\ Steam1Call("positive", needed.positive)
    /\ UNCHANGED <<data, mem, prog, run, disk, remote, target_per_game, target_total,
                   existing_reviews, df_existing, game_stats, gi, needed,
                   all_new_reviews, pages_checked, duplicates_found,
                   collected, max_pages_arg, requests>>

\* fetch_reviews_by_type: one page request and the tests on its response
Steam1Request(resp) ==
    /\ prog = "steam1" /\ pc = "loop"
    /\ last' = Observed(Outcome(resp), NoCand)
    /\ IF Outcome(resp) = "page"
       THEN todo' = resp.reviews /\ pc' = "for"
       ELSE todo' = 0 /\ pc' = "return"
    /\ UNCHANGED <<data, mem, prog, run, disk, remote, target_per_game, target_total,
                   existing_reviews, df_existing, game_stats, gi, needed,
                   new_reviews, all_new_reviews, reviews, pages_checked,
                   cursor, duplicates_found, review_type, target_count,
                   collected, max_pages_arg, requests>>

\* fetch_reviews_by_type: one review of the page; after the last one (or
\* the break on a filled quota) the tail of the while body
Steam1Review(review, cur) ==
    /\ prog = "steam1" /\ pc = "for"
    /\ LET r == Steam1ProcessReview(review, reviews, target_count)
           endfor == r.brk \/ todo = 1
       IN /\ reviews' = r.reviews
          /\ last' = Observed(r.outcome, review)
          /\ IF r.outcome = "badreview"
             THEN /\ pc' = "return"
                  /\ todo' = 0
                  /\ cursor' = cursor
             ELSE IF endfor
             THEN /\ todo' = 0
                  /\ cursor' = cur
                  /\ pc' = IF Cursor1Ends(cur)
                              \/ ~Steam1LoopCond(r.reviews, target_count)
                           THEN "return" ELSE "loop"
             ELSE /\ todo' = todo - 1
                  /\ pc' = "for"
                  /\ cursor' = cursor
    /\ UNCHANGED <<data, mem, prog, run, disk, remote, target_per_game, target_total,
                   existing_reviews, df_existing, game_stats, gi, needed,
                   new_reviews, all_new_reviews, pages_checked,
                   duplicates_found, review_type, target_count, collected,
                   max_pages_arg, requests>>

\* fetch_reviews_by_type returns into main: the negative fetch after the
\* positive one, the rest of the loop body after the negative one
Steam1Return ==
    /\ prog = "steam1" /\ pc = "return"
    /\ new_reviews' = new_reviews \o reviews
    /\ IF review_type = "positive"
       THEN /\ Steam1Call("negative", needed.negative)
            /\ UNCHANGED <<gi, all_new_reviews>>
       ELSE /\ all_new_reviews' =
                   all_new_reviews \o WithGame(new_reviews', GAME_IDS[gi])
            /\ NextGame
            /\ last' = NoLast
            /\ UNCHANGED <<reviews, cursor, todo, review_type, target_count>>
    /\ UNCHANGED <<data, mem, prog, run, disk, remote, target_per_game, target_total,
                   existing_reviews, df_existing, game_stats, needed,
                   pages_checked, duplicates_found, collected, max_pages_arg,
                   requests>>

\* main after the game loop: df = pd.DataFrame(all_reviews); df[columns]
\* selects columns that a frame built from an empty list does not have
FirstSave ==
    /\ prog \in {"steam1", "meta1"} /\ pc = "save"
    /\ IF Len(all_new_reviews) = 0
       THEN disk' = disk /\ pc' = "raised"
       ELSE disk' = [disk EXCEPT !.final = File(all_new_reviews)] /\ pc' = "done"
    /\ UNCHANGED <<data, mem, prog, run, remote, target_per_game, target_total,
                   existing_reviews, df_existing, game_stats, gi, needed,
                   new_reviews, all_new_reviews, reviews, pages_checked,
                   cursor, duplicates_found, review_type, target_count,
                   collected, max_pages_arg, todo, requests, last>>

\* the body of the for loop of metacritic_scr.scrape_reviews_by_sentiment
Meta1ProcessReview(review, revs, sentiment, num_reviews) ==
    IF ~review.has_score
    THEN [reviews |-> revs, outcome |-> "noscore", brk |-> FALSE]
    ELSE IF SentimentSkips(sentiment, review.score)
    THEN [reviews |-> revs, outcome |-> "category", brk |-> FALSE]
    ELSE IF review.chars <= MIN_CHARS0
    THEN [reviews |-> revs, outcome |-> "short", brk |-> FALSE]
    ELSE LET author == IF review.author = NoKey THEN META_PLACEHOLDER
                       ELSE review.author
             revs2 == Append(revs, [author |-> author,
                                    review_text |-> review.chars,
                                    user_score |-> review.score,
                                    voted_up |-> review.score >= POSITIVE_MIN])
         IN [reviews |-> revs2, outcome |-> "accepted",
             brk |-> Len(revs2) >= num_reviews]

\* main of metacritic_scr.py up to the game loop
Meta1Start ==
    /\ prog = "meta1" /\ pc = "start"
    /\ needed' = FirstPlan(target_total)
    /\ all_new_reviews' = <<>>
    /\ gi' = 1
    /\ pc' = "game"
    /\ UNCHANGED <<data, mem, prog, run, disk, remote, target_per_game, target_total,
                   existing_reviews, df_existing, game_stats, new_reviews,
                   reviews, pages_checked, cursor, duplicates_found,
                   review_type, target_count, collected, max_pages_arg, todo,
                   requests, last>>

\* the locals of a fresh scrape_reviews_by_sentiment call
Meta1Call(sentiment, num_reviews) ==
    /\ review_type' = sentiment
    /\ target_count' = num_reviews
    /\ reviews' = <<>>
    /\ todo' = 0
    /\ last' = NoLast
    /\ pc' = "loop"

\* main: search_metacritic for the current game, then the positive scrape
Meta1Search(found) ==
    /\ prog = "meta1" /\ pc = "game"
    /\ new_reviews' = <<>>
    /\ IF found
       THEN /\ Meta1Call("positive", needed.positive)
            /\ gi' = gi
       ELSE /\ NextGame
            /\ UNCHANGED <<reviews, todo, last, review_type, target_count>>
    /\ UNCHANGED <<data, mem, prog, run, disk, remote, target_per_game, target_total,
                   existing_reviews, df_existing, game_stats, needed,
                   all_new_reviews, pages_checked, cursor, duplicates_found,
                   collected, max_pages_arg, requests>>

\* scrape_reviews_by_sentiment: the request of the review page
Meta1Request(resp) ==
    /\ prog = "meta1" /\ pc = "loop"
    /\ IF resp.kind = "raise"
       THEN last' = Observed("raise", NoCand) /\ todo' = 0 /\ pc' = "return"
       ELSE IF resp.status # 200
       THEN last' = Observed("http", NoCand) /\ todo' = 0 /\ pc' = "return"
       ELSE IF resp.reviews = 0
       THEN last' = Observed("empty", NoCand) /\ todo' = 0 /\ pc' = "return"
       ELSE last' = Observed("page", NoCand) /\ todo' = resp.reviews /\ pc' = "for"
    /\ UNCHANGED <<data, mem, prog, run, disk, remote, target_per_game, target_total,
                   existing_reviews, df_existing, game_stats, gi, needed,
                   new_reviews, all_new_reviews, reviews, pages_checked,
                   cursor, duplicates_found, review_type, target_count,
                   collected, max_pages_arg, requests>>

\* scrape_reviews_by_sentiment: one review div of the page
Meta1Review(review) ==
    /\ prog = "meta1" /\ pc = "for"
    /\ LET r == Meta1ProcessReview(review, reviews, review_type, target_count)
       IN /\ reviews' = r.reviews
          /\ last' = Observed(r.outcome, review)
          /\ IF r.brk \/ todo = 1
             THEN todo' = 0 /\ pc' = "return"
             ELSE todo' = todo - 1 /\ pc' = "for"
    /\ UNCHANGED <<data, mem, prog, run, disk, remote, target_per_game, target_total,
                   existing_reviews, df_existing, game_stats, gi, needed,
                   new_reviews, all_new_reviews, pages_checked, cursor,
                   duplicates_found, review_type, target_count, collected,
                   max_pages_arg, requests>>

\* scrape_reviews_by_sentiment returns into main
Meta1Return ==
    /\ prog = "meta1" /\ pc = "return"
    /\ new_reviews' = new_reviews \o reviews
    /\ IF review_type = "positive"
       THEN /\ Meta1Call("negative", needed.negative)
            /\ UNCHANGED <<gi, all_new_reviews>>
       ELSE /\ all_new_reviews' =
                   all_new_reviews \o WithGame(new_reviews', GAME_IDS[gi])
            /\ NextGame
            /\ last' = NoLast
            /\ UNCHANGED <<reviews, todo, review_type, target_count>>
    /\ UNCHANGED <<data, mem, prog, run, disk, remote, target_per_game, target_total,
                   existing_reviews, df_existing, game_stats, needed,
                   pages_checked, cursor, duplicates_found, collected,
                   max_pages_arg, requests>>

(* The remote sources of the first scrapers, bounded *)

FirstSteamCands ==
    {[steamid |-> "u1", chars |-> MIN_CHARS1, voted_up |-> TRUE],
     [steamid |-> "u1", chars |-> MIN_CHARS1 + 1, voted_up |-> TRUE],
     [steamid |-> NoKey, chars |-> MIN_CHARS1 + 1, voted_up |-> TRUE]}

FirstMetaCands ==
    {[has_score |-> TRUE, score |-> POSITIVE_MIN, chars |-> MIN_CHARS0 + 1,
      author |-> "u1"],
     [has_score |-> TRUE, score |-> NEGATIVE_MAX, chars |-> MIN_CHARS0 + 1,
      author |-> NoKey],
     [has_score |-> TRUE, score |-> POSITIVE_MIN - 1, chars |-> MIN_CHARS0 + 1,
      author |-> "u1"],
     [has_score |-> TRUE, score |-> POSITIVE_MIN, chars |-> MIN_CHARS0,
      author |-> "u1"]}

FirstCursors == {"", "c1"}

InitFirst ==
    /\ prog \in {"steam1", "meta1"}
    /\ run = 1
    /\ disk = NoDisk
    /\ remote = <<>>
    /\ target_per_game = 0
    /\ target_total \in 0..MaxFirstTotal
    /\ max_pages_arg = 0
    /\ InitMemory

FirstSteamRequest == \E resp \in SteamResponses : Steam1Request(resp)

FirstSteamReview ==
    \E review \in FirstSteamCands, cur \in FirstCursors :
        Steam1Review(review, cur)

FirstMetaSearch == \E found \in BOOLEAN : Meta1Search(found)

FirstMetaRequest == \E resp \in MetaResponses : Meta1Request(resp)

FirstMetaReview == \E review \in FirstMetaCands : Meta1Review(review)

NextFirst ==
    \/ Steam1Start
    \/ Steam1Game
    \/ FirstSteamRequest
    \/ FirstSteamReview
    \/ Steam1Return
    \/ FirstSave
    \/ Meta1Start
    \/ FirstMetaSearch
    \/ FirstMetaRequest
    \/ FirstMetaReview
    \/ Meta1Return

SpecFirst == InitFirst /\ [][NextFirst]_vars

\* every step that is enabled is taken in the end: a request returns or
\* raises, and the script goes on
SpecFirstLive == SpecFirst /\ WF_vars(NextFirst)

----------------------------------------------------------------------------
(* The text-transformation scripts of ARABIC/DataCleaning/                  *)
(* TranslatingToEnglish: translate_only.py, pipeline.py,                    *)
(* split_neutral_reviews.py, fix_netrual.py, augment_data.py.               *)
(* A text is a sequence of tokens: a word "w", a whitespace "_", an HTML    *)
(* tag "<t>", an HTML entity "&e;" (which unescapes to the character "e").  *)
(* A call of a model either raises or returns a text.                       *)

MaxRows == 2               \* rows of the input table
MaxWords == 2              \* largest max_words tried

TRANSLATION_ERROR == <<"[TRANSLATION_ERROR]">>
NO_POSITIVE == <<"No", "_", "positive", "_", "opinions", "_", "found.">>
NO_NEGATIVE == <<"No", "_", "negative", "_", "opinions", "_", "found.">>

RECURSIVE LStrip(_)
\* str.lstrip(): the text without its leading whitespace
LStrip(s) ==
    IF s # <<>> /\ Head(s) = "_" THEN LStrip(Tail(s)) ELSE s

RECURSIVE RStrip(_)
\* str.rstrip(): the text without its trailing whitespace
RStrip(s) ==
    IF s # <<>> /\ s[Len(s)] = "_" THEN RStrip(SubSeq(s, 1, Len(s) - 1))
    ELSE s

\* str.strip()
Strip(s) == LStrip(RStrip(s))

RECURSIVE Split(_)
\* str.split(): the words of a text, each a sequence of tokens
Split(s) ==
    LET t == LStrip(s)
        n == IF \E i \in 1..Len(t) : t[i] = "_"
             THEN (CHOOSE i \in 1..Len(t) :
                      t[i] = "_" /\ \A j \in 1..(i - 1) : t[j] # "_") - 1
             ELSE Len(t)
    IN IF t = <<>> THEN <<>>
       ELSE <<SubSeq(t, 1, n)>> \o Split(SubSeq(t, n + 1, Len(t)))

RECURSIVE Join(_)
\* ' '.join(words)
Join(words) ==
    IF words = <<>> THEN <<>>
    ELSE IF Len(words) = 1 THEN words[1]
    ELSE words[1] \o <<"_">> \o Join(Tail(words))

\* translate_only.strip_html: tags become whitespace, entities are
\* unescaped, whitespace is normalised
strip_html(text) ==
    LET untagged == [i \in 1..Len(text) |->
                        IF text[i] = "<t>" THEN "_" ELSE text[i]]
        unescaped == [i \in 1..Len(untagged) |->
                        IF untagged[i] = "&e;" THEN "e" ELSE untagged[i]]
    IN Join(Split(unescaped))

\* pipeline.count_words
count_words(text) == Len(Split(text))

\* pd.isna(text) or not str(text).strip()
IsBlank(text) == Strip(text) = <<>>

\* the answer of a model call: it raises, or it returns a text
Raises == [raises |-> TRUE, text |-> <<>>]
Returns(text) == [raises |-> FALSE, text |-> text]

\* translate_only.process_dataframe: the text stored for one row
TranslateOnlyText(original_text, resp) ==
    IF IsBlank(original_text) THEN original_text
    ELSE LET cleaned_input == strip_html(original_text)
         IN IF resp.raises THEN cleaned_input ELSE resp.text

\* pipeline.extract_opinions_batch for one text: texts within max_words
\* are kept, longer ones are summarised, or cut when the summariser raises
extract_opinion(text, resp, max_words) ==
    IF count_words(text) <= max_words THEN text
    ELSE IF resp.raises
    THEN Join(SubSeq(Split(text), 1, max_words))
    ELSE IF count_words(resp.text) > max_words
    THEN Join(SubSeq(Split(resp.text), 1, max_words))
    ELSE resp.text

\* pipeline.process_reviews: the translation stored for a text of a batch
PipelineTranslated(tresp) ==
    IF tresp.raises THEN TRANSLATION_ERROR ELSE tresp.text

\* split_neutral_reviews.extract_positive_only
extract_positive_only(text, resp) ==
    IF resp.raises THEN NO_POSITIVE
    ELSE IF Strip(resp.text) # <<>> THEN Strip(resp.text) ELSE NO_POSITIVE

\* split_neutral_reviews.extract_negative_only
extract_negative_only(text, resp) ==
    IF resp.raises THEN NO_NEGATIVE
    ELSE IF Strip(resp.text) # <<>> THEN Strip(resp.text) ELSE NO_NEGATIVE

\* fix_netrual.extract_positive_opinions and extract_negative_opinions
extract_opinions(review_text, resp) ==
    IF resp.raises THEN review_text ELSE Strip(resp.text)

\* augment_data.paraphrase
paraphrase(text, resp) ==
    IF resp.raises THEN text ELSE Strip(resp.text)

TextProgs == {"translate_only", "pipeline", "split_neutral", "fix_neutral",
              "augment"}

\* the step of a script over the rows of its table: row mem.idx is read,
\* the texts in stored are appended to the results
TextStep(outcome, original, stored) ==
    /\ mem' = [mem EXCEPT !.idx = mem.idx + 1,
                          !.results = mem.results \o stored,
                          !.stored = stored]
    /\ last' = Observed(outcome, original)
    /\ pc' = IF mem.idx = Len(data) THEN "done" ELSE "rows"
    /\ UNCHANGED <<data, prog, run, disk, remote, target_per_game,
                   target_total, existing_reviews, df_existing, game_stats,
                   gi, needed, new_reviews, all_new_reviews, reviews,
                   pages_checked, cursor, duplicates_found, review_type,
                   target_count, collected, max_pages_arg, todo, requests>>

\* translate_only.process_dataframe: one row of the loop
TranslateOnlyRow(resp) ==
    /\ prog = "translate_only" /\ pc = "rows"
    /\ LET original_text == data[mem.idx].review_text
       IN TextStep(IF IsBlank(original_text) THEN "kept"
                   ELSE IF resp.raises THEN "raise" ELSE "ok",
                   original_text,
                   <<TranslateOnlyText(original_text, resp)>>)

\* pipeline.process_reviews with batch_size 1: one review, its translation,
\* then the opinion extraction
PipelineRow(tresp, sresp) ==
    /\ prog = "pipeline" /\ pc = "rows"
    /\ LET original == data[mem.idx].review_text
           translated == PipelineTranslated(tresp)
           opinion == extract_opinion(translated, sresp, mem.max_words)
       IN TextStep(IF tresp.raises THEN "raise"
                   ELSE IF count_words(translated) > mem.max_words
                           /\ sresp.raises THEN "raise"
                   ELSE "ok",
                   original, <<opinion>>)

\* split_neutral_reviews.split_neutral_reviews: one row of the loop
SplitNeutralRow(presp, nresp) ==
    /\ prog = "split_neutral" /\ pc = "rows"
    /\ LET row == data[mem.idx]
           original_text == row.review_text
       IN IF row.voted_up # "Neutral" \/ IsBlank(original_text)
          THEN TextStep("kept", original_text, <<original_text>>)
          ELSE TextStep(IF presp.raises \/ nresp.raises THEN "raise" ELSE "ok",
                        original_text,
                        <<extract_positive_only(original_text, presp),
                          extract_negative_only(original_text, nresp)>>)

\* fix_netrual.split_reviews: one row of the table; the neutral rows are
\* split by the loop, and after the last row final_df is the other rows,
\* then the positive halves, then the negative halves
FixNeutralRow(presp, nresp) ==
    /\ prog = "fix_neutral" /\ pc = "rows"
    /\ LET row == data[mem.idx]
           review_text == row.review_text
           neutral == row.voted_up = "Neutral"
           non == IF neutral THEN mem.non_neutral
                  ELSE Append(mem.non_neutral, review_text)
           pos == IF neutral
                  THEN Append(mem.positive_reviews,
                              extract_opinions(review_text, presp))
                  ELSE mem.positive_reviews
           neg == IF neutral
                  THEN Append(mem.negative_reviews,
                              extract_opinions(review_text, nresp))
                  ELSE mem.negative_reviews
       IN /\ mem' = [mem EXCEPT
                       !.idx = mem.idx + 1,
                       !.non_neutral = non,
                       !.positive_reviews = pos,
                       !.negative_reviews = neg,
                       !.stored = IF neutral
                                  THEN <<pos[Len(pos)], neg[Len(neg)]>>
                                  ELSE <<review_text>>,
                       !.results = IF mem.idx = Len(data)
                                   THEN non \o pos \o neg ELSE <<>>]
          /\ last' = Observed(IF ~neutral THEN "kept"
                              ELSE IF presp.raises \/ nresp.raises
                              THEN "raise" ELSE "ok", review_text)
    /\ pc' = IF mem.idx = Len(data) THEN "done" ELSE "rows"
    /\ UNCHANGED <<data, prog, run, disk, remote, target_per_game,
                   target_total, existing_reviews, df_existing, game_stats,
                   gi, needed, new_reviews, all_new_reviews, reviews,
                   pages_checked, cursor, duplicates_found, review_type,
                   target_count, collected, max_pages_arg, todo, requests>>

\* augment_data.augment_review with method "paraphrase", for one row
AugmentRow(resp) ==
    /\ prog = "augment" /\ pc = "rows"
    /\ LET text == data[mem.idx].review_text
       IN TextStep(IF resp.raises THEN "raise" ELSE "ok", text,
                   <<paraphrase(text, resp)>>)

(* The inputs of the text scripts, bounded *)

Texts ==
    {<<>>, <<"_">>, <<"w">>, <<"w", "_", "w">>, <<"<t>", "w">>,
     <<"w", "_", "_", "w">>, <<"&e;">>}

ModelTexts == {<<>>, <<"_", "w">>, <<"w", "_", "w", "_", "w">>}

ModelAnswers == {Raises} \cup {Returns(t) : t \in ModelTexts}

TextRows == [review_text : Texts, voted_up : {"Neutral", "True"}]

InitText ==
    /\ prog \in TextProgs
    /\ run = 1
    /\ disk = NoDisk
    /\ remote = <<>>
    /\ target_per_game = 0
    /\ target_total = 0
    /\ max_pages_arg = 0
    /\ InitFetch
    /\ target_count = 0
    /\ \E t \in SeqsUpTo(TextRows, MaxRows) \ {<<>>}, m \in 1..MaxWords :
          /\ data = t
          /\ mem = [idx |-> 1, results |-> <<>>, stored |-> <<>>,
                    max_words |-> m, non_neutral |-> <<>>,
                    positive_reviews |-> <<>>, negative_reviews |-> <<>>]
    /\ pc = "rows"

TextTranslateOnly == \E resp \in ModelAnswers : TranslateOnlyRow(resp)

TextPipeline == \E tresp, sresp \in ModelAnswers : PipelineRow(tresp, sresp)

TextSplitNeutral ==
    \E presp, nresp \in ModelAnswers : SplitNeutralRow(presp, nresp)

TextFixNeutral ==
    \E presp, nresp \in ModelAnswers : FixNeutralRow(presp, nresp)

TextAugment == \E resp \in ModelAnswers : AugmentRow(resp)

NextText ==
    \/ TextTranslateOnly
    \/ TextPipeline
    \/ TextSplitNeutral
    \/ TextFixNeutral
    \/ TextAugment

SpecText == InitText /\ [][NextText]_vars

----------------------------------------------------------------------------
(* Properties *)

Placeholders == {STEAM_PLACEHOLDER, META_PLACEHOLDER}

\* the reviewer identity of a table row and of a remote review
Reviewer(row) == IF prog = "meta" THEN row.author ELSE row.user_id

CandReviewer(review) ==
    IF prog = "meta"
    THEN (IF review.author = NoKey THEN META_PLACEHOLDER ELSE review.author)
    ELSE review.steamid

Key(row) == <<Reviewer(row), row.game_name>>

InFetch == pc \in {"loop", "for", "return"}

\* the records accepted so far in this run, in the order of acceptance
RunAccepted ==
    all_new_reviews \o (IF InFetch THEN new_reviews \o reviews ELSE <<>>)

\* C1: the records accepted by one fetch (the list of the current fetch)
\* never outnumber the needed count handed to the fetch, 0 included.
C1_AcceptedWithinNeeded ==
    prog \in {"steam3", "meta"} => Len(reviews) <= target_count

\* C2: no two rows of the final persisted table share a (reviewer, game)
\* pair with a real reviewer identity, whatever the prior table was.
C2_FinalTableUnique ==
    disk.final.exists =>
        \A i, j \in 1..Len(disk.final.rows) :
            (i < j /\ Reviewer(disk.final.rows[i]) \notin Placeholders)
            => Key(disk.final.rows[i]) # Key(disk.final.rows[j])

\* C4: a Metacritic record accepted by a positive fetch has a score >= 7, one
\* accepted by a negative fetch has a score <= 4; no score of the neutral
\* band 5..6 is ever among the accepted records.
C4_NeutralBandExcluded ==
    prog = "meta" =>
        /\ InFetch =>
             \A i \in 1..Len(reviews) :
                 /\ review_type = "positive"
                        => reviews[i].user_score >= POSITIVE_MIN
                 /\ review_type = "negative"
                        => reviews[i].user_score <= NEGATIVE_MAX
        /\ \A i \in 1..Len(RunAccepted) :
               ~(NEGATIVE_MAX < RunAccepted[i].user_score
                 /\ RunAccepted[i].user_score < POSITIVE_MIN)

\* a neutral-band review was processed by a fetch and skipped
C4_Witness ==
    /\ prog = "meta" /\ pc \in {"for", "return"}
    /\ last.outcome = "category"
    /\ last.review.score \in (NEGATIVE_MAX + 1)..(POSITIVE_MIN - 1)

\* C5: within one run no two accepted records share a (reviewer, game) pair
\* (only the first candidate with a key is accepted), and the key of every
\* accepted record is in the identity tracker from its acceptance on.
C5_FirstCandidateOnly ==
    /\ \A i, j \in 1..Len(RunAccepted) :
           i < j => Key(RunAccepted[i]) # Key(RunAccepted[j])
    /\ \A i \in 1..Len(RunAccepted) : Key(RunAccepted[i]) \in existing_reviews

\* a candidate of a later page was rejected as a duplicate of a record
\* accepted earlier by the same fetch
C5_Witness ==
    /\ last.outcome = "duplicate"
    /\ pages_checked >= 1
    /\ \E i \in 1..Len(reviews) :
           Key(reviews[i]) = <<CandReviewer(last.review), GAME_IDS[gi]>>

\* C7: a candidate whose reviewer identity is a placeholder is never rejected
\* as a duplicate, and no placeholder row of the prior table is in the
\* identity tracker.
C7_PlaceholderNeverDeduplicated ==
    /\ last.outcome = "duplicate"
           => CandReviewer(last.review) \notin Placeholders
    /\ \A i \in 1..Len(df_existing) :
           (Reviewer(df_existing[i]) \in Placeholders /\ RunAccepted = <<>>)
           => Key(df_existing[i]) \notin existing_reviews

\* C8: every record accepted while collecting a category has that category:
\* voted_up is true in a positive fetch and false in a negative fetch.
C8_AcceptedMatchCategory ==
    InFetch => \A i \in 1..Len(reviews) :
                   reviews[i].voted_up = (review_type = "positive")

\* C9: a failing page of the Steam collector (request raises, status not
\* 200, success false, no reviews, a review that raises) ends the fetch at
\* once with the records accepted so far, the fetch returns them to
\* scrape_game, and the run goes on with the next category or game.
C9_FailureEndsFetch ==
    [][prog = "steam3" =>
        /\ (pc \in {"loop", "for"} /\ last'.outcome \in Failures)
               => (pc' = "return" /\ reviews' = reviews
                   /\ pages_checked' = pages_checked)
        /\ pc = "return"
               => (/\ new_reviews' = new_reviews \o reviews
                   /\ pc' \in {"loop", "game", "save"}
                   /\ requests' = 0 \/ requests' = requests)
        /\ (InFetch \/ pc = "game") => pc' # "raised"]_vars

\* a fetch that had accepted a record ended on a failing page
C9_Witness ==
    /\ prog = "steam3" /\ pc = "return"
    /\ last.outcome \in Failures
    /\ Len(reviews) >= 1
    /\ gi < Len(GAME_IDS)

\* C3: when the script is run twice in succession against the same remote
\* data, the second run accepts no record.
C3_SecondRunAcceptsNothing ==
    run = 2 => RunAccepted = <<>>

\* C6: for the game being planned the planner returns, per category,
\* max(0, target_per_game \div 2 - count of that category among the rows of
\* the game in the prior table): never negative, 0 at or above the target,
\* and {positive: 2, negative: 5} for target 10 with 3 positive, 0 negative.
C6_PlannerNeeded ==
    [][(prog = "steam3" /\ pc = "game") =>
         LET g == GAME_IDS[gi]
             rows == disk.existing.rows
             cur(v) == Cardinality({i \in 1..Len(rows) :
                           rows[i].game_name = g /\ rows[i].voted_up = v})
             half == target_per_game \div 2
             want(v) == IF half - cur(v) > 0 THEN half - cur(v) ELSE 0
         IN /\ needed'.positive = want(TRUE)
            /\ needed'.negative = want(FALSE)
            /\ needed'.positive >= 0 /\ needed'.negative >= 0
            /\ cur(TRUE) >= half => needed'.positive = 0
            /\ cur(FALSE) >= half => needed'.negative = 0
            /\ (target_per_game = 10 /\ cur(TRUE) = 3 /\ cur(FALSE) = 0)
                   => (needed'.positive = 2 /\ needed'.negative = 5)]_vars

\* the planner has answered {positive: 2, negative: 5} for a game with 3
\* positive and no negative rows, target 10
C6_Witness ==
    /\ prog = "steam3" /\ pc = "loop" /\ requests = 0
    /\ review_type = "positive"
    /\ target_per_game = 10
    /\ needed.positive = 2 /\ needed.negative = 5
    /\ needed.current_positive = 3 /\ needed.current_negative = 0
    /\ Cardinality({i \in 1..Len(disk.existing.rows) :
           /\ disk.existing.rows[i].game_name = GAME_IDS[gi]
           /\ disk.existing.rows[i].voted_up}) = 3

\* C10: one fetch never issues more page requests than its ceiling: 50 in
\* _scrape_by_type, the max_pages argument in steam_scr2.
C10_PageCeiling ==
    /\ prog = "steam3" => requests <= max_pages
    /\ prog = "steam2" => requests <= max_pages_arg

\* a fetch was ended by the ceiling: it issued max_pages requests, its last
\* page came with a fresh cursor and its quota is not filled
C10_Witness ==
    /\ prog = "steam3" /\ pc = "return"
    /\ requests = max_pages /\ pages_checked = max_pages
    /\ ~CursorEnds(cursor)
    /\ Len(reviews) < target_count

\* C11: whatever fails while fetching (status, exception, empty page, game
\* not found), no main ends on an exception: a script never reaches the
\* state in which an exception has left main.
C11_NoFatalError ==
    pc # "raised"

\* C17: every fetch of a paginated fetcher ends: a fetch that is at its
\* while test reaches its return, whatever the remote source answers.
C17_FetchTerminates ==
    (pc = "loop") ~> (pc = "return")

\* C12: the merged table that is written is the prior table, row for row
\* and in its order, followed by the records of the run in the order of
\* their acceptance: a fetch appends each accepted record to its list, the
\* lists of a game are appended positive first, the games in processing
\* order, and the save step writes prior rows then new rows and leaves the
\* prior file alone.
C12_MergeAppends ==
    [][(prog \in {"steam3", "meta"}) =>
        /\ (pc = "for" /\ last'.outcome = "accepted")
               => (/\ Len(reviews') = Len(reviews) + 1
                   /\ SubSeq(reviews', 1, Len(reviews)) = reviews)
        /\ (pc = "for" /\ last'.outcome # "accepted")
               => reviews' = reviews
        /\ pc = "game"
               => (/\ new_reviews' = <<>>
                   /\ all_new_reviews' = all_new_reviews
                   /\ (pc' \in {"loop", "return"} /\ needed'.positive > 0)
                          => review_type' = "positive")
        /\ pc = "return"
               => new_reviews' = new_reviews \o reviews
        /\ (pc = "return" /\ pc' \in {"game", "save"})
               => all_new_reviews' = all_new_reviews \o new_reviews'
        /\ (pc = "return" /\ pc' \notin {"game", "save"})
               => (/\ all_new_reviews' = all_new_reviews
                   /\ review_type = "positive"
                   /\ review_type' = "negative")
        /\ pc \in {"loop", "for"}
               => (/\ new_reviews' = new_reviews
                   /\ all_new_reviews' = all_new_reviews)
        /\ pc = "save"
               => (/\ disk'.existing = disk.existing
                   /\ disk'.final.exists
                          => disk'.final.rows
                             = disk.existing.rows \o all_new_reviews)
        /\ (pc # "save" => disk' = disk)]_vars

\* a merged table was written: prior rows, then the records of two games
C12_Witness ==
    /\ pc = "done" /\ disk.final.exists
    /\ Len(disk.existing.rows) >= 1
    /\ Len(all_new_reviews) >= 2
    /\ all_new_reviews[1].game_name # all_new_reviews[2].game_name
    /\ disk.final.rows = disk.existing.rows \o all_new_reviews

\* C15: the two per-category targets derived from a per-game total sum to
\* that total: for a game without prior rows the quotas of
\* calculate_needed sum to target_per_game, and the quotas of the main()
\* planners sum to reviews_per_game.
C15_SplitSumsToTarget ==
    /\ (prog = "steam3" /\ InFetch /\ needed.current_positive = 0
           /\ needed.current_negative = 0)
          => needed.positive + needed.negative = target_per_game
    /\ (prog \in {"steam1", "meta1"} /\ pc # "start")
          => needed.positive + needed.negative
             = target_total \div Len(GAME_IDS)
    /\ (prog = "meta" /\ pc \notin {"start", "done"})
          => needed.positive + needed.negative
             = (target_total - Len(df_existing)) \div Len(GAME_IDS)

\* C16: scrape_game plans before it fetches and a zero quota skips the
\* fetch: when both quotas of a game are 0 the game is left at once with
\* no record and no request; a fetch is only ever started for a category
\* whose quota is positive, with that quota as its target, so no request
\* is issued for a category whose quota is 0.
C16_ZeroQuotaSkips ==
    [][prog = "steam3" =>
        /\ pc = "game"
               => needed' = calculate_needed(GAME_IDS[gi], game_stats,
                                             target_per_game)
        /\ (pc = "game" /\ needed'.positive = 0 /\ needed'.negative = 0)
               => (/\ pc' \in {"game", "save"}
                   /\ new_reviews' = <<>>
                   /\ all_new_reviews' = all_new_reviews
                   /\ requests' = requests)
        /\ pc' \in {"loop", "for", "return"}
               => (/\ needed'[review_type'] > 0
                   /\ target_count' = needed'[review_type'])
        /\ requests' # requests
               => (requests' = 0 \/ needed[review_type] > 0)]_vars

\* a game with a zero positive and a nonzero negative quota: its negative
\* fetch has issued a request, the positive one was never started
C16_Witness ==
    /\ prog = "steam3" /\ pc \in {"for", "return"}
    /\ needed.positive = 0 /\ needed.negative > 0
    /\ review_type = "negative" /\ requests >= 1
    /\ new_reviews = <<>>

\* C18: the duplicate-safe Metacritic scraper never collects more new
\* reviews than TARGET_NEW = TARGET_TOTAL - existing_count (nothing when
\* that is not positive), so the table it writes has at most TARGET_TOTAL
\* rows.
C18_TotalWithinTarget ==
    prog = "meta" =>
        /\ pc # "start" =>
              Len(all_new_reviews)
                  <= Max(0, target_total - Len(df_existing))
        /\ disk.final.exists => Len(disk.final.rows) <= target_total

\* C13: when a call of a text model raises, every text stored for that row
\* is exactly the original text of the row.
C13_FallbackKeepsOriginal ==
    (prog \in TextProgs /\ last.outcome = "raise")
        => \A i \in 1..Len(mem.stored) : mem.stored[i] = last.review

\* ---------------------------------------------------------------------
\* The remote lookups: fix_genres.lookup_genres_rawg and
\* add_prices.get_steam_api_price. One step per request; mem holds the loop
\* counter of `for attempt in range(max_retries)`, the log of the answers
\* of this lookup, the sleeps taken and the value returned.

\* default of the parameter max_retries of both lookups
max_retries == 3

\* time.sleep(5) after a 429 of RAWG
RAWG_BACKOFF == 5

\* time.sleep(2) after a timeout of RAWG, except on the last attempt
RAWG_TIMEOUT_SLEEP == 2

\* time.sleep(15) after a 429 of the Steam search
STEAM_BACKOFF == 15

\* time.sleep(3) after a timeout or an exception of the Steam lookup, except
\* on the last attempt
STEAM_RETRY_SLEEP == 3

LookupProgs == {"fix_genres", "add_prices"}

Pending == [returned |-> FALSE, value |-> "None", app_id |-> "None"]

Returned(value, app_id) ==
    [returned |-> TRUE, value |-> value, app_id |-> app_id]

\* the next iteration of the for loop, after a sleep of s seconds (0: no
\* sleep); when the range is exhausted the function prints "Failed after"
\* and returns None
NextAttempt(resp, s) ==
    LET a == mem.attempt + 1
    IN /\ mem' = [mem EXCEPT
                    !.attempt = a,
                    !.log = Append(mem.log, resp),
                    !.sleeps = IF s = 0 THEN mem.sleeps
                               ELSE Append(mem.sleeps, s),
                    !.result = IF a < max_retries THEN Pending
                               ELSE Returned("None", "None")]
       /\ pc' = IF a < max_retries THEN "attempt" ELSE "done"

\* a return statement inside the loop
LookupReturn(resp, value, app_id) ==
    /\ mem' = [mem EXCEPT !.log = Append(mem.log, resp),
                          !.result = Returned(value, app_id)]
    /\ pc' = "done"

\* lookup_genres_rawg: one iteration of the loop, the answer of
\* session.get being resp
RawgRequest(resp) ==
    /\ prog = "fix_genres" /\ pc = "attempt"
    /\ mem.attempt < max_retries
    /\ requests' = requests + 1
    /\ CASE resp = "429" -> NextAttempt(resp, RAWG_BACKOFF)
         [] resp = "status" -> LookupReturn(resp, "None", "None")
         [] resp = "empty" -> LookupReturn(resp, "None", "None")
         [] resp = "genres" -> LookupReturn(resp, "genres", "None")
         [] resp = "tags" -> LookupReturn(resp, "tags", "None")
         [] resp = "bare" -> LookupReturn(resp, "None", "None")
         [] resp = "timeout" ->
                NextAttempt(resp, IF mem.attempt < max_retries - 1
                                  THEN RAWG_TIMEOUT_SLEEP ELSE 0)
         [] resp = "error" -> LookupReturn(resp, "None", "None")
    /\ UNCHANGED <<data, prog, run, disk, remote, target_per_game,
                   target_total, existing_reviews, df_existing, game_stats,
                   gi, needed, new_reviews, all_new_reviews, reviews,
                   pages_checked, cursor, duplicates_found, review_type,
                   target_count, collected, max_pages_arg, todo, last>>

\* an exception other than a timeout inside the loop of get_steam_api_price:
\* sleep and go on, except on the last attempt, which returns
SteamError(resp) ==
    IF mem.attempt < max_retries - 1
    THEN NextAttempt(resp, STEAM_RETRY_SLEEP)
    ELSE LookupReturn(resp, "None", "None")

\* get_steam_api_price: the search request of one iteration
SteamSearchRequest(resp) ==
    /\ prog = "add_prices" /\ pc = "attempt"
    /\ mem.attempt < max_retries
    /\ requests' = requests + 1
    /\ CASE resp = "429" -> NextAttempt(resp, STEAM_BACKOFF)
         [] resp = "status" -> LookupReturn(resp, "None", "None")
         [] resp = "empty" -> LookupReturn(resp, "None", "None")
         [] resp = "found" ->
                /\ mem' = [mem EXCEPT !.log = Append(mem.log, resp)]
                /\ pc' = "price"
         [] resp = "timeout" ->
                NextAttempt(resp, IF mem.attempt < max_retries - 1
                                  THEN STEAM_RETRY_SLEEP ELSE 0)
         [] resp = "error" -> SteamError(resp)
    /\ UNCHANGED <<data, prog, run, disk, remote, target_per_game,
                   target_total, existing_reviews, df_existing, game_stats,
                   gi, needed, new_reviews, all_new_reviews, reviews,
                   pages_checked, cursor, duplicates_found, review_type,
                   target_count, collected, max_pages_arg, todo, last>>

\* get_steam_api_price: the price request of the same iteration; a 429 here
\* is a status other than 200
SteamPriceRequest(resp) ==
    /\ prog = "add_prices" /\ pc = "price"
    /\ requests' = requests + 1
    /\ CASE resp \in {"429", "status"} -> LookupReturn(resp, "None", "app")
         [] resp = "unavailable" -> LookupReturn(resp, "None", "app")
         [] resp = "free" -> LookupReturn(resp, "0.0", "app")
         [] resp = "bare" -> LookupReturn(resp, "None", "app")
         [] resp = "discounted" -> LookupReturn(resp, "initial", "app")
         [] resp = "priced" -> LookupReturn(resp, "final", "app")
         [] resp = "timeout" ->
                NextAttempt(resp, IF mem.attempt < max_retries - 1
                                  THEN STEAM_RETRY_SLEEP ELSE 0)
         [] resp = "error" -> SteamError(resp)
    /\ UNCHANGED <<data, prog, run, disk, remote, target_per_game,
                   target_total, existing_reviews, df_existing, game_stats,
                   gi, needed, new_reviews, all_new_reviews, reviews,
                   pages_checked, cursor, duplicates_found, review_type,
                   target_count, collected, max_pages_arg, todo, last>>

\* --- environment of the lookups

RawgAnswers ==
    {"429", "status", "empty", "genres", "tags", "bare", "timeout", "error"}

SteamSearchAnswers ==
    {"429", "status", "empty", "found", "timeout", "error"}

SteamPriceAnswers ==
    {"429", "status", "unavailable", "free", "bare", "discounted", "priced",
     "timeout", "error"}

InitLookup ==
    /\ prog \in LookupProgs
    /\ run = 1
    /\ disk = NoDisk
    /\ remote = <<>>
    /\ target_per_game = 0
    /\ target_total = 0
    /\ max_pages_arg = 0
    /\ InitFetch
    /\ target_count = 0
    /\ data = <<>>
    /\ mem = [attempt |-> 0, log |-> <<>>, sleeps |-> <<>>,
              result |-> Pending]
    /\ pc = "attempt"

LookupRawg == \E resp \in RawgAnswers : RawgRequest(resp)

LookupSteamSearch == \E resp \in SteamSearchAnswers : SteamSearchRequest(resp)

LookupSteamPrice == \E resp \in SteamPriceAnswers : SteamPriceRequest(resp)

NextLookup == LookupRawg \/ LookupSteamSearch \/ LookupSteamPrice

SpecLookup == InitLookup /\ [][NextLookup]_vars

\* the requests of this lookup that follow a rate-limit answer
RateLimitRetries(log) ==
    Cardinality({i \in 1..(Len(log) - 1) : log[i] = "429"})

\* C14: after an HTTP 429 a lookup sleeps the fixed backoff and retries
\* exactly once: within one lookup at most one request follows a 429, the
\* number of requests is bounded, and a lookup whose retries are used up
\* returns not-found.
C14_OneRetryAfterRateLimit ==
    prog \in LookupProgs =>
        /\ RateLimitRetries(mem.log) <= 1
        /\ requests <= 2 * max_retries
        /\ (pc = "done" /\ mem.attempt = max_retries) =>
               mem.result = Returned("None", "None")

\* ---------------------------------------------------------------------
\* balance.py. data is the table read from cleaned_reviews.csv; a row is
\* named by its index label, its position in data. mem.steam is the index
\* of the frame steam, mem.balanced the labels of the rows of df_balanced in
\* their order (to_csv drops the labels), mem.added the rows added back.
\* The script fixes target_steam at 3351; here it is drawn from
\* 0..MaxTargetSteam so that small tables reach every branch. Every Steam
\* row carries the name of its game, as the scrapers write it.

MaxBalanceRows == 5
MaxTargetSteam == 3

Range(s) == {s[i] : i \in 1..Len(s)}

\* df[df['source'] == source].index
SourceIndex(source) ==
    SelectSeq([i \in 1..Len(data) |-> i], LAMBDA i : data[i].source = source)

\* steam.groupby('game_name').sample(n=1, random_state=42): the label sets
\* holding one row of every game of steam; which row the seeded generator
\* picks is left open
GroupSamples(steam) ==
    LET games == {data[i].game_name : i \in Range(steam)}
    IN {S \in SUBSET Range(steam) :
           \A g \in games :
              Cardinality({i \in S : data[i].game_name = g}) = 1}

\* frame.drop(labels)
Drop(frame, labels) == SelectSeq(frame, LAMBDA i : i \notin labels)

\* df[df['source'] == 'Steam'].drop(steam.index)
RemovedReviews_all(steam) == SourceIndex("Steam")

RemovedReviews(steam) == Drop(SourceIndex("Steam"), Range(steam))

\* frame.sample(n=n, random_state=42): n different rows of the frame in
\* some order; sampling more rows than the frame has raises
Samples(frame, n) ==
    {q \in [1..n -> Range(frame)] : \A i, j \in 1..n : q[i] = q[j] => i = j}

\* one iteration of `while len(steam) > target_steam`
BalanceRemove(to_remove) ==
    /\ prog = "balance" /\ pc = "while"
    /\ Len(mem.steam) > mem.target_steam
    /\ to_remove \in GroupSamples(mem.steam)
    /\ mem' = [mem EXCEPT !.steam = Drop(mem.steam, to_remove)]
    /\ pc' = "while"
    /\ UNCHANGED <<data, prog, run, disk, remote, target_per_game,
                   target_total, existing_reviews, df_existing, game_stats,
                   gi, needed, new_reviews, all_new_reviews, reviews,
                   pages_checked, cursor, duplicates_found, review_type,
                   target_count, collected, max_pages_arg, todo, requests,
                   last>>

\* the loop has ended: rows are added back after an overshoot, the frames
\* are concatenated and balanced_reviews.csv is written
BalanceCombine(add_back) ==
    /\ prog = "balance" /\ pc = "while"
    /\ Len(mem.steam) <= mem.target_steam
    /\ LET need_to_add == mem.target_steam - Len(mem.steam)
           removed_reviews == RemovedReviews(mem.steam)
       IN IF Len(mem.steam) < mem.target_steam
             /\ need_to_add > Len(removed_reviews)
          THEN /\ add_back = <<>>
               /\ pc' = "raised"
               /\ UNCHANGED <<mem, disk>>
          ELSE /\ IF Len(mem.steam) < mem.target_steam
                  THEN add_back \in Samples(removed_reviews, need_to_add)
                  ELSE add_back = <<>>
               /\ LET steam == mem.steam \o add_back
                      df_balanced == steam \o SourceIndex("Metacritic")
                  IN /\ mem' = [mem EXCEPT !.steam = steam,
                                           !.added = add_back,
                                           !.balanced = df_balanced]
                     /\ disk' = [disk EXCEPT !.final =
                                   File([i \in 1..Len(df_balanced) |->
                                            data[df_balanced[i]]])]
               /\ pc' = "done"
    /\ UNCHANGED <<data, prog, run, remote, target_per_game,
                   target_total, existing_reviews, df_existing, game_stats,
                   gi, needed, new_reviews, all_new_reviews, reviews,
                   pages_checked, cursor, duplicates_found, review_type,
                   target_count, collected, max_pages_arg, todo, requests,
                   last>>

\* --- environment of balance.py

BalanceRows ==
    [source : {"Steam"}, game_name : Games]
        \cup [source : {"Metacritic"}, game_name : {GAME_IDS[1]}]

InitBalance ==
    /\ prog = "balance"
    /\ run = 1
    /\ disk = NoDisk
    /\ remote = <<>>
    /\ target_per_game = 0
    /\ target_total = 0
    /\ max_pages_arg = 0
    /\ InitFetch
    /\ target_count = 0
    /\ data \in SeqsUpTo(BalanceRows, MaxBalanceRows)
    /\ \E t \in 0..MaxTargetSteam :
          mem = [target_steam |-> t, steam |-> SourceIndex("Steam"),
                 added |-> <<>>, balanced |-> <<>>]
    /\ pc = "while"

BalanceLoop ==
    \E to_remove \in SUBSET (1..Len(data)) : BalanceRemove(to_remove)

BalanceEnd ==
    \E add_back \in SeqsUpTo(1..Len(data), MaxTargetSteam) :
        BalanceCombine(add_back)

NextBalance == BalanceLoop \/ BalanceEnd

SpecBalance == InitBalance /\ [][NextBalance]_vars

\* the script runs on: a step is taken whenever one is possible
SpecBalanceLive == SpecBalance /\ WF_vars(NextBalance)

MaxCleanRows == 3

\* word_count >= 3
MIN_WORD_COUNT == 3

\* word_count <= 300
MAX_WORD_COUNT == 300

\* votes_funny_num <= 2
MAX_FUNNY == 2

\* df.drop_duplicates(subset=['review_text'], keep='first')
drop_duplicates(rows) ==
    LET keep == {i \in 1..Len(rows) :
                    \A j \in 1..(i - 1) :
                       rows[j].review_text # rows[i].review_text}
        index == SelectSeq([i \in 1..Len(rows) |-> i],
                           LAMBDA i : i \in keep)
    IN [k \in 1..Len(index) |-> rows[index[k]]]

\* str.lower()
Lower(text) ==
    [i \in 1..Len(text) |->
        CASE text[i] = "W" -> "w"
          [] text[i] = "V" -> "v"
          [] OTHER -> text[i]]

RECURSIVE SkipRun(_, _)
\* the text after its leading run of tokens of the class
SkipRun(text, class) ==
    IF text # <<>> /\ Head(text) \in class
    THEN SkipRun(Tail(text), class) ELSE text

RECURSIVE ReplaceRuns(_, _)
\* str.replace(r'<class>+', ' ', regex=True): every run of tokens of the
\* class becomes one space
ReplaceRuns(text, class) ==
    IF text = <<>> THEN <<>>
    ELSE IF Head(text) \in class
    THEN <<"_">> \o ReplaceRuns(SkipRun(text, class), class)
    ELSE <<Head(text)>> \o ReplaceRuns(Tail(text), class)

\* step 2 of clean_reviews: lower case, newlines, whitespace, strip
Preprocess(text) ==
    Strip(ReplaceRuns(ReplaceRuns(Lower(text), {"nl"}), {"_", "nl"}))

\* clean_reviews(input_file, output_file): duplicates are dropped, the
\* texts are preprocessed, then short, funny and long reviews are removed
\* and the table is written
CleanReviews ==
    /\ prog = "cleaning" /\ pc = "start"
    /\ LET unique == drop_duplicates(data)
           df == [i \in 1..Len(unique) |->
                     [unique[i] EXCEPT
                        !.review_text = Preprocess(unique[i].review_text)]]
           kept == SelectSeq(df, LAMBDA row :
                      /\ count_words(row.review_text) >= MIN_WORD_COUNT
                      /\ row.votes_funny <= MAX_FUNNY
                      /\ count_words(row.review_text) <= MAX_WORD_COUNT)
       IN /\ disk' = [disk EXCEPT !.final = File(kept)]
          /\ mem' = [removed |-> Len(data) - Len(unique)]
    /\ pc' = "done"
    /\ UNCHANGED <<data, prog, run, remote, target_per_game,
                   target_total, existing_reviews, df_existing, game_stats,
                   gi, needed, new_reviews, all_new_reviews, reviews,
                   pages_checked, cursor, duplicates_found, review_type,
                   target_count, collected, max_pages_arg, todo, requests,
                   last>>

\* --- environment of clean_reviews

CleanTexts ==
    {<<"w", "_", "w", "_", "v">>,
     <<"W", "_", "w", "_", "v">>,
     <<"w", "_", "_", "w", "_", "v">>,
     <<"w", "nl", "w", "_", "v">>,
     <<"v", "_", "v", "_", "v">>,
     <<"w", "_", "v">>}

CleanRows == [review_text : CleanTexts, votes_funny : {0, MAX_FUNNY + 1}]

InitClean ==
    /\ prog = "cleaning"
    /\ run = 1
    /\ disk = NoDisk
    /\ remote = <<>>
    /\ target_per_game = 0
    /\ target_total = 0
    /\ max_pages_arg = 0
    /\ InitFetch
    /\ target_count = 0
    /\ data \in SeqsUpTo(CleanRows, MaxCleanRows)
    /\ mem = NoMem
    /\ pc = "start"

NextClean == CleanReviews

SpecClean == InitClean /\ [][NextClean]_vars

\* C20: the table written by clean_reviews holds no two rows with the same
\* review_text, whatever the input table, texts that differ only in letter
\* case or in whitespace included.
C20_NoDuplicateTexts ==
    (prog = "cleaning" /\ pc = "done") =>
        \A i, j \in 1..Len(disk.final.rows) :
            disk.final.rows[i].review_text = disk.final.rows[j].review_text
                => i = j

\* ---------------------------------------------------------------------
\* The neutral splitters at the level of rows:
\* split_neutral_reviews.split_neutral_reviews and fix_netrual.split_reviews.
\* A row holds review_text, voted_up ("Neutral", "True", "False" as the CSV
\* spells them) and user_score; a score is a record, NaN or a number.
\* mem.results is the table returned, mem.stored the rows made of the row
\* just read. The columns original_sentiment and split_type that
\* split_neutral_reviews adds are left out.

MaxSplitRows == 2

\* the cap and the floor of the derived scores
SCORE_MAX == 10
SCORE_MIN == 0

\* the score assumed when the row has none
DEFAULT_SCORE == 5

\* the distance of the derived scores from the original one
SCORE_SHIFT == 2

SplitProgs == {"split_neutral_reviews", "split_reviews"}

NaN == [nan |-> TRUE, v |-> 0]

Num(v) == [nan |-> FALSE, v |-> v]

Min2(a, b) == IF a <= b THEN a ELSE b

Max2(a, b) == IF a >= b THEN a ELSE b

\* the score the two halves are derived from: pd.isna(score) gives 5.0
OriginalScore(score) == IF score.nan THEN DEFAULT_SCORE ELSE score.v

\* calculate_scores(original_score): <<positive_score, negative_score>>;
\* fix_netrual.split_reviews computes the same two numbers in line
calculate_scores(original_score) ==
    LET s == OriginalScore(original_score)
    IN <<Min2(SCORE_MAX, s + SCORE_SHIFT), Max2(SCORE_MIN, s - SCORE_SHIFT)>>

\* the row made of a neutral row for one half
HalfRow(row, text, voted_up, score) ==
    [row EXCEPT !.review_text = text, !.voted_up = voted_up,
                !.user_score = Num(score)]

\* split_neutral_reviews.split_neutral_reviews: one row of the loop; after
\* the last row the list of results becomes the table returned
SplitNeutralReviewsRow(presp, nresp) ==
    /\ prog = "split_neutral_reviews" /\ pc = "rows"
    /\ LET row == data[mem.idx]
           original_text == row.review_text
           scores == calculate_scores(row.user_score)
           kept == row.voted_up # "Neutral" \/ IsBlank(original_text)
           stored ==
               IF kept THEN <<row>>
               ELSE <<HalfRow(row,
                              extract_positive_only(original_text, presp),
                              "True", scores[1]),
                      HalfRow(row,
                              extract_negative_only(original_text, nresp),
                              "False", scores[2])>>
       IN /\ mem' = [mem EXCEPT !.idx = mem.idx + 1,
                                !.results = mem.results \o stored,
                                !.stored = stored]
          /\ last' = Observed(IF kept THEN "kept" ELSE "split", row)
    /\ pc' = IF mem.idx = Len(data) THEN "done" ELSE "rows"
    /\ UNCHANGED <<data, prog, run, disk, remote, target_per_game,
                   target_total, existing_reviews, df_existing, game_stats,
                   gi, needed, new_reviews, all_new_reviews, reviews,
                   pages_checked, cursor, duplicates_found, review_type,
                   target_count, collected, max_pages_arg, todo, requests>>

\* fix_netrual.split_reviews on a table without neutral rows: the table is
\* returned as it is
SplitReviewsNone ==
    /\ prog = "split_reviews" /\ pc = "rows"
    /\ \A i \in 1..Len(data) : data[i].voted_up # "Neutral"
    /\ mem' = [mem EXCEPT !.idx = Len(data) + 1,
                          !.results = data,
                          !.stored = <<>>]
    /\ last' = Observed("none", NoCand)
    /\ pc' = "done"
    /\ UNCHANGED <<data, prog, run, disk, remote, target_per_game,
                   target_total, existing_reviews, df_existing, game_stats,
                   gi, needed, new_reviews, all_new_reviews, reviews,
                   pages_checked, cursor, duplicates_found, review_type,
                   target_count, collected, max_pages_arg, todo, requests>>

\* fix_netrual.split_reviews: one row of the table, the neutral ones being
\* those the loop splits; after the last row final_df is the other rows,
\* then the positive halves, then the negative halves
SplitReviewsRow(presp, nresp) ==
    /\ prog = "split_reviews" /\ pc = "rows"
    /\ \E i \in 1..Len(data) : data[i].voted_up = "Neutral"
    /\ LET row == data[mem.idx]
           neutral == row.voted_up = "Neutral"
           original_score == OriginalScore(row.user_score)
           pos_row == HalfRow(row, extract_opinions(row.review_text, presp),
                              "True",
                              Min2(SCORE_MAX, original_score + SCORE_SHIFT))
           neg_row == HalfRow(row, extract_opinions(row.review_text, nresp),
                              "False",
                              Max2(SCORE_MIN, original_score - SCORE_SHIFT))
           non == IF neutral THEN mem.non_neutral
                  ELSE Append(mem.non_neutral, row)
           pos == IF neutral THEN Append(mem.positive_reviews, pos_row)
                  ELSE mem.positive_reviews
           neg == IF neutral THEN Append(mem.negative_reviews, neg_row)
                  ELSE mem.negative_reviews
       IN /\ mem' = [mem EXCEPT
                       !.idx = mem.idx + 1,
                       !.non_neutral = non,
                       !.positive_reviews = pos,
                       !.negative_reviews = neg,
                       !.stored = IF neutral THEN <<pos_row, neg_row>>
                                  ELSE <<row>>,
                       !.results = IF mem.idx = Len(data)
                                   THEN non \o pos \o neg ELSE <<>>]
          /\ last' = Observed(IF neutral THEN "split" ELSE "kept", row)
    /\ pc' = IF mem.idx = Len(data) THEN "done" ELSE "rows"
    /\ UNCHANGED <<data, prog, run, disk, remote, target_per_game,
                   target_total, existing_reviews, df_existing, game_stats,
                   gi, needed, new_reviews, all_new_reviews, reviews,
                   pages_checked, cursor, duplicates_found, review_type,
                   target_count, collected, max_pages_arg, todo, requests>>

\* --- environment of the splitters

SplitTexts == {<<>>, <<"w">>}

SplitAnswers == {Raises, Returns(<<"v">>)}

Scores == {NaN} \cup {Num(v) : v \in SCORE_MIN..SCORE_MAX}

SplitRows ==
    [review_text : SplitTexts, voted_up : {"Neutral", "True"},
     user_score : Scores]

InitSplit ==
    /\ prog \in SplitProgs
    /\ run = 1
    /\ disk = NoDisk
    /\ remote = <<>>
    /\ target_per_game = 0
    /\ target_total = 0
    /\ max_pages_arg = 0
    /\ InitFetch
    /\ target_count = 0
    /\ data \in SeqsUpTo(SplitRows, MaxSplitRows) \ {<<>>}
    /\ mem = [idx |-> 1, results |-> <<>>, stored |-> <<>>,
              non_neutral |-> <<>>, positive_reviews |-> <<>>,
              negative_reviews |-> <<>>]
    /\ pc = "rows"

SplitNeutralReviews ==
    \E presp, nresp \in SplitAnswers : SplitNeutralReviewsRow(presp, nresp)

SplitReviews ==
    \E presp, nresp \in SplitAnswers : SplitReviewsRow(presp, nresp)

NextSplit == SplitNeutralReviews \/ SplitReviewsNone \/ SplitReviews

SpecSplit == InitSplit /\ [][NextSplit]_vars

\* the neutral rows of the input before row i
NeutralBefore(i) ==
    Cardinality({j \in 1..(i - 1) : data[j].voted_up = "Neutral"})

\* C21: the two scores derived from a neutral row keep its score as their
\* average: (positive_score + negative_score) / 2 equals the original
\* score, a missing score counting as 5, for every score in 0..10.
C21_AverageKept ==
    (prog \in SplitProgs /\ last.outcome = "split") =>
        mem.stored[1].user_score.v + mem.stored[2].user_score.v
            = 2 * OriginalScore(last.review.user_score)

\* C22: the table returned holds every row that is not neutral unchanged
\* at its place, and two adjacent rows, voted_up True then False, in the
\* place of every neutral row: no row is neutral and there are
\* len(input) + (number of neutral rows) rows.
C22_NeutralRowsSplitInPlace ==
    (prog \in SplitProgs /\ pc = "done") =>
        /\ Len(mem.results) = Len(data) + NeutralBefore(Len(data) + 1)
        /\ \A k \in 1..Len(mem.results) : mem.results[k].voted_up # "Neutral"
        /\ \A i \in 1..Len(data) :
              LET p == i + NeutralBefore(i)
              IN IF data[i].voted_up # "Neutral"
                 THEN mem.results[p] = data[i]
                 ELSE /\ mem.results[p].voted_up = "True"
                      /\ mem.results[p + 1].voted_up = "False"

\* ---------------------------------------------------------------------
\* remove_empty.remove_empty_reviews. mem.fs is the file system, a file for
\* every path; a path names one file. A cell of review_text is missing
\* (NaN after read_csv) or a text of the tokens "w" (a word), "_" (a
\* space) and "nbsp" (a no-break space). mem.original is the input file as
\* it was when the function was called.

MaxRemoveRows == 2

INPUT_PATH == "in.csv"

\* input_path + ".bak"
BAK_PATH == "in.csv.bak"

OTHER_PATH == "out.csv"

RemovePaths == {INPUT_PATH, BAK_PATH, OTHER_PATH}

NoCsv == [exists |-> FALSE, columns |-> {}, rows |-> <<>>]

CsvFile(columns, rows) ==
    [exists |-> TRUE, columns |-> columns, rows |-> rows]

MissingCell == [na |-> TRUE, text |-> <<>>]

Cell(text) == [na |-> FALSE, text |-> text]

\* fillna("").astype(str).str.replace(" ", " ").str.strip()
ReviewTextNorm(cell) ==
    LET filled == IF cell.na THEN <<>> ELSE cell.text
        replaced == [i \in 1..Len(filled) |->
                        IF filled[i] = "nbsp" THEN "_" ELSE filled[i]]
    IN Strip(replaced)

\* df[df["_review_text_norm"].str.len() > 0]
Cleaned(rows) ==
    SelectSeq(rows, LAMBDA row : Len(ReviewTextNorm(row.review_text)) > 0)

\* out_path: the output path, or the input path when none is given
OutPath(input_path, output_path) ==
    IF output_path # "" THEN output_path ELSE input_path

\* out_path == input_path and backup
NeedsBackup_never(out_path, input_path, backup) == FALSE

NeedsBackup(out_path, input_path, backup) ==
    out_path = input_path /\ backup

\* the start of remove_empty_reviews: the input is read and cleaned
RemoveRead ==
    /\ prog = "remove_empty" /\ pc = "start"
    /\ LET file == mem.fs[INPUT_PATH]
       IN IF ~file.exists \/ "review_text" \notin file.columns
          THEN /\ pc' = "raised"
               /\ UNCHANGED <<data, mem>>
          ELSE /\ data' = file.rows
               /\ mem' = [mem EXCEPT !.cleaned = Cleaned(file.rows),
                                     !.columns = file.columns]
               /\ pc' = IF NeedsBackup(OutPath(INPUT_PATH, mem.output_path),
                                       INPUT_PATH, mem.backup)
                        THEN "backup" ELSE "write"
    /\ UNCHANGED <<prog, run, disk, remote, target_per_game,
                   target_total, existing_reviews, df_existing, game_stats,
                   gi, needed, new_reviews, all_new_reviews, reviews,
                   pages_checked, cursor, duplicates_found, review_type,
                   target_count, collected, max_pages_arg, todo, requests,
                   last>>

\* shutil.copy2(input_path, bak_path)
RemoveBackup ==
    /\ prog = "remove_empty" /\ pc = "backup"
    /\ mem' = [mem EXCEPT !.fs[BAK_PATH] = mem.fs[INPUT_PATH]]
    /\ pc' = "write"
    /\ UNCHANGED <<data, prog, run, disk, remote, target_per_game,
                   target_total, existing_reviews, df_existing, game_stats,
                   gi, needed, new_reviews, all_new_reviews, reviews,
                   pages_checked, cursor, duplicates_found, review_type,
                   target_count, collected, max_pages_arg, todo, requests,
                   last>>

\* cleaned.to_csv(out_path, index=False)
RemoveWrite ==
    /\ prog = "remove_empty" /\ pc = "write"
    /\ mem' = [mem EXCEPT
                 !.fs[OutPath(INPUT_PATH, mem.output_path)] =
                     CsvFile(mem.columns, mem.cleaned)]
    /\ pc' = "done"
    /\ UNCHANGED <<data, prog, run, disk, remote, target_per_game,
                   target_total, existing_reviews, df_existing, game_stats,
                   gi, needed, new_reviews, all_new_reviews, reviews,
                   pages_checked, cursor, duplicates_found, review_type,
                   target_count, collected, max_pages_arg, todo, requests,
                   last>>

\* --- environment of remove_empty_reviews

RemoveCells ==
    {MissingCell, Cell(<<"_">>), Cell(<<"nbsp">>), Cell(<<"w">>),
     Cell(<<"_", "w">>)}

RemoveRowsWithText == [game_name : Games, review_text : RemoveCells]

RemoveRowsWithout == [game_name : Games]

RemoveInputs ==
    {NoCsv}
        \cup {CsvFile({"game_name", "review_text"}, t) :
                 t \in SeqsUpTo(RemoveRowsWithText, MaxRemoveRows)}
        \cup {CsvFile({"game_name"}, t) :
                 t \in SeqsUpTo(RemoveRowsWithout, MaxRemoveRows)}

\* what the other paths may hold before the call
RemoveOldFiles ==
    {NoCsv, CsvFile({"game_name"}, <<[game_name |-> GAME_IDS[1]]>>)}

InitRemove ==
    /\ prog = "remove_empty"
    /\ run = 1
    /\ disk = NoDisk
    /\ remote = <<>>
    /\ target_per_game = 0
    /\ target_total = 0
    /\ max_pages_arg = 0
    /\ InitFetch
    /\ target_count = 0
    /\ data = <<>>
    /\ \E input \in RemoveInputs, bak, other \in RemoveOldFiles,
          output_path \in {"", INPUT_PATH, OTHER_PATH}, backup \in BOOLEAN :
          mem = [fs |-> [p \in RemovePaths |->
                           IF p = INPUT_PATH THEN input
                           ELSE IF p = BAK_PATH THEN bak ELSE other],
                 original |-> input,
                 output_path |-> output_path,
                 backup |-> backup,
                 columns |-> {},
                 cleaned |-> <<>>]
    /\ pc = "start"

NextRemove == RemoveRead \/ RemoveBackup \/ RemoveWrite

SpecRemove == InitRemove /\ [][NextRemove]_vars

C24_BlankRowsRemoved ==
    (prog = "remove_empty" /\ mem.original.exists) =>
        /\ pc # "raised"
        /\ pc = "done" =>
             LET out == mem.fs[OutPath(INPUT_PATH, mem.output_path)]
                 rows == mem.original.rows
                 NonBlank(row) ==
                     /\ "review_text" \in mem.original.columns
                     /\ ~row.review_text.na
                     /\ \E i \in 1..Len(row.review_text.text) :
                           row.review_text.text[i] \notin {"_", "nbsp"}
             IN /\ out.exists
                /\ out.rows = SelectSeq(rows, NonBlank)

\* C25: the filter rejects in the order category mismatch, text too short,
\* duplicate: a candidate that is too short and whose (reviewer, game) pair
\* is already in the tracker is rejected as short and does not add to the
\* count of duplicates skipped, in the Steam collector as in the Metacritic
\* one.
C25_ShortBeforeDuplicate ==
    [][(/\ prog \in {"steam3", "meta"}
        /\ pc = "for"
        /\ <<CandReviewer(last'.review), GAME_IDS[gi]>> \in existing_reviews
        /\ IF prog = "steam3"
           THEN /\ last'.review.steamid # NoKey
                /\ last'.review.words < MIN_WORDS
           ELSE /\ last'.review.has_score
                /\ ~SentimentSkips(review_type, last'.review.score)
                /\ last'.review.chars <= MIN_CHARS)
          => (/\ last'.outcome = "short"
              /\ duplicates_found' = duplicates_found)]_vars

MaxRaceReviews == 2

Procs == {1, 2}

\* main up to the game loop, in process p: load_existing_reviews and the
\* planning
RaceStart(p) ==
    /\ prog = "race" /\ mem.proc[p].pc = "start"
    /\ LET df == IF disk.existing.exists THEN disk.existing.rows ELSE <<>>
           plan == MetaPlan(target_total, Len(df))
       IN mem' = [mem EXCEPT
                    !.proc[p].existing_df = df,
                    !.proc[p].existing_reviews = MetaLoadPairs(df),
                    !.proc[p].num = plan.positive,
                    !.proc[p].pc = IF plan.target_new <= 0 THEN "done"
                                   ELSE "for"]
    /\ UNCHANGED <<data, pc, prog, run, disk, remote, target_per_game,
                   target_total, existing_reviews, df_existing, game_stats,
                   gi, needed, new_reviews, all_new_reviews, reviews,
                   pages_checked, cursor, duplicates_found, review_type,
                   target_count, collected, max_pages_arg, todo, requests,
                   last>>

\* scrape_reviews_by_sentiment in process p: one review div
RaceReview(p, review) ==
    /\ prog = "race" /\ mem.proc[p].pc = "for"
    /\ mem.proc[p].seen < MaxRaceReviews
    /\ Len(mem.proc[p].reviews) < mem.proc[p].num
    /\ LET me == mem.proc[p]
           r == MetaProcessReview(review, me.reviews, me.existing_reviews,
                                  me.duplicates_skipped, GAME_IDS[1],
                                  "positive", me.num)
       IN mem' = [mem EXCEPT
                    !.proc[p].reviews = r.reviews,
                    !.proc[p].existing_reviews = r.tracker,
                    !.proc[p].duplicates_skipped = r.dups,
                    !.proc[p].seen = me.seen + 1,
                    !.proc[p].pc = IF r.brk THEN "return" ELSE "for"]
    /\ UNCHANGED <<data, pc, prog, run, disk, remote, target_per_game,
                   target_total, existing_reviews, df_existing, game_stats,
                   gi, needed, new_reviews, all_new_reviews, reviews,
                   pages_checked, cursor, duplicates_found, review_type,
                   target_count, collected, max_pages_arg, todo, requests,
                   last>>

\* the fetch of process p returns into main (quota filled, or no further
\* page), and the loop over the games ends
RaceReturn(p) ==
    /\ prog = "race" /\ mem.proc[p].pc \in {"for", "return"}
    /\ mem' = [mem EXCEPT
                 !.proc[p].all_new_reviews = mem.proc[p].reviews,
                 !.proc[p].pc = "save"]
    /\ UNCHANGED <<data, pc, prog, run, disk, remote, target_per_game,
                   target_total, existing_reviews, df_existing, game_stats,
                   gi, needed, new_reviews, all_new_reviews, reviews,
                   pages_checked, cursor, duplicates_found, review_type,
                   target_count, collected, max_pages_arg, todo, requests,
                   last>>

\* a main that merges into the file another process has written meanwhile
RaceSave_merging(p) ==
    /\ prog = "race" /\ mem.proc[p].pc = "save"
    /\ LET me == mem.proc[p]
           base == IF disk.final.exists THEN disk.final.rows
                   ELSE me.existing_df
       IN IF Len(me.all_new_reviews) > 0
          THEN /\ disk' = [disk EXCEPT
                             !.final = File(base \o me.all_new_reviews)]
               /\ mem' = [mem EXCEPT !.proc[p].pc = "done",
                                     !.writers = Append(mem.writers, p)]
          ELSE /\ disk' = disk
               /\ mem' = [mem EXCEPT !.proc[p].pc = "done"]
    /\ UNCHANGED <<data, pc, prog, run, remote, target_per_game,
                   target_total, existing_reviews, df_existing, game_stats,
                   gi, needed, new_reviews, all_new_reviews, reviews,
                   pages_checked, cursor, duplicates_found, review_type,
                   target_count, collected, max_pages_arg, todo, requests,
                   last>>

\* main after the game loop, in process p: the prior table it loaded,
\* followed by its new reviews, is written over the output file
RaceSave(p) ==
    /\ prog = "race" /\ mem.proc[p].pc = "save"
    /\ LET me == mem.proc[p]
       IN IF Len(me.all_new_reviews) > 0
          THEN /\ disk' = [disk EXCEPT
                             !.final = File(me.existing_df
                                                \o me.all_new_reviews)]
               /\ mem' = [mem EXCEPT !.proc[p].pc = "done",
                                     !.writers = Append(mem.writers, p)]
          ELSE /\ disk' = disk
               /\ mem' = [mem EXCEPT !.proc[p].pc = "done"]
    /\ UNCHANGED <<data, pc, prog, run, remote, target_per_game,
                   target_total, existing_reviews, df_existing, game_stats,
                   gi, needed, new_reviews, all_new_reviews, reviews,
                   pages_checked, cursor, duplicates_found, review_type,
                   target_count, collected, max_pages_arg, todo, requests,
                   last>>

\* --- environment of the two runs

\* totals: one the prior table can reach, one that leaves a positive quota
\* of MaxRaceReviews
RaceTotals == {MaxPrior, 4 * MaxRaceReviews + MaxPrior}

InitRace ==
    /\ prog = "race"
    /\ run = 1
    /\ disk \in {[NoDisk EXCEPT !.existing = f] :
                    f \in {NoFile} \cup {File(t) : t \in MetaPriorTables}}
    /\ remote = <<>>
    /\ target_per_game = 0
    /\ target_total \in RaceTotals
    /\ max_pages_arg = 0
    /\ InitFetch
    /\ target_count = 0
    /\ data = <<>>
    /\ mem = [proc |-> [p \in Procs |->
                          [pc |-> "start", existing_df |-> <<>>,
                           existing_reviews |-> {}, num |-> 0,
                           reviews |-> <<>>, all_new_reviews |-> <<>>,
                           duplicates_skipped |-> 0, seen |-> 0]],
              writers |-> <<>>]
    /\ pc = "start"

RaceStarts == \E p \in Procs : RaceStart(p)

RaceReviews ==
    \E p \in Procs, review \in MetaCands(GAME_IDS[1]) : RaceReview(p, review)

RaceReturns == \E p \in Procs : RaceReturn(p)

RaceSaves == \E p \in Procs : RaceSave(p)

NextRace == RaceStarts \/ RaceReviews \/ RaceReturns \/ RaceSaves

SpecRace == InitRace /\ [][NextRace]_vars

\* the (author, game) pairs of the rows of a table
RacePairs(rows) ==
    {<<rows[i].author, rows[i].game_name>> : i \in 1..Len(rows)}

\* C27: two runs at the same time race on the final write: whenever a run
\* has written, the output file holds the merge of the last writer alone,
\* its copy of the prior table followed by its own new reviews, whatever
\* the other run accepted or wrote before.
C27_LastWriterWins ==
    (prog = "race" /\ mem.writers # <<>>) =>
        LET w == mem.proc[mem.writers[Len(mem.writers)]]
        IN /\ disk.final.exists
           /\ disk.final.rows = w.existing_df \o w.all_new_reviews

\* both runs have written; a review accepted by the first writer is not in
\* the file, and both runs accepted the same (author, game) pair
C27_Witness ==
    /\ prog = "race"
    /\ \A p \in Procs : mem.proc[p].pc = "done"
    /\ Len(mem.writers) = 2
    /\ LET lost == mem.proc[mem.writers[1]].all_new_reviews
           won == mem.proc[mem.writers[2]].all_new_reviews
       IN /\ \E i \in 1..Len(lost) :
                \A k \in 1..Len(disk.final.rows) : disk.final.rows[k] # lost[i]
          /\ RacePairs(lost) \cap RacePairs(won) # {}

\* ---------------------------------------------------------------------
\* Several scrape_game calls on one SmartSteamScraper: scrape_all_games is
\* called again on the same object, so every game gets a second
\* scrape_game with the tracker and the game_stats the first pass left.
\* run counts the passes; mem.earlier keeps the records of the passes
\* before the current one.

\* scraper.scrape_all_games(GAME_IDS) once more on the same scraper
ScrapeAgain ==
    /\ prog = "steam3" /\ pc = "save"
    /\ run < MaxRuns
    /\ run' = run + 1
    /\ mem' = [mem EXCEPT !.earlier = mem.earlier \o all_new_reviews]
    /\ all_new_reviews' = <<>>
    /\ gi' = 1
    /\ pc' = "game"
    /\ UNCHANGED <<data, prog, disk, remote, target_per_game, target_total,
                   existing_reviews, df_existing, game_stats, needed,
                   new_reviews, reviews, pages_checked, cursor,
                   duplicates_found, review_type, target_count, collected,
                   max_pages_arg, todo, requests, last>>

\* the prior tables of the repeated calls: none, or one row
InitCalls ==
    /\ prog = "steam3"
    /\ run = 1
    /\ disk \in {[NoDisk EXCEPT !.existing = f] :
                    f \in {NoFile} \cup {File(<<r>>) : r \in SteamPriorRows}}
    /\ remote = <<>>
    /\ target_per_game \in Targets
    /\ target_total = 0
    /\ max_pages_arg = 0
    /\ InitFetch
    /\ target_count = 0
    /\ data = <<>>
    /\ mem = [earlier |-> <<>>]
    /\ pc = "start"

NextCalls ==
    \/ Steam3Construct
    \/ Steam3ScrapeGame
    \/ \E resp \in SteamResponses : Steam3Request(resp)
    \/ Steam3Remote
    \/ Steam3Return
    \/ ScrapeAgain

SpecCalls == InitCalls /\ [][NextCalls]_vars

\* the rows of a table that are of a game
RowsOf(rows, game_name) ==
    {i \in 1..Len(rows) : rows[i].game_name = game_name}

\* the count of a category for a game in the prior table as loaded
LoadedCount(game_name, category) ==
    LET pos == Cardinality({i \in RowsOf(df_existing, game_name) :
                               df_existing[i].voted_up})
    IN IF category = "positive" THEN pos
       ELSE Cardinality(RowsOf(df_existing, game_name)) - pos

\* game_stats[game_name][category], 0 for a game without an entry
StatCount(stats, game_name, category) ==
    IF game_name \in DOMAIN stats THEN stats[game_name][category] ELSE 0

\* C28: whatever scrape_game calls were made on a scraper, the tracked
\* count of a game and category is at most the larger of the loaded count
\* and target_per_game // 2, and it is the loaded count plus the records
\* accepted for the game by the fetches of the category (a call adds to the
\* count the number of records its fetch returned); so a scrape_game on a
\* game whose two quotas are filled issues no request.
C28_StatsWithinQuota ==
    /\ [](prog = "steam3" /\ pc # "start" =>
            \A g \in Games :
               /\ \A c \in {"positive", "negative"} :
                     StatCount(game_stats, g, c)
                        <= Max(LoadedCount(g, c), target_per_game \div 2)
               /\ pc \in {"game", "save"} =>
                     StatCount(game_stats, g, "positive")
                        + StatCount(game_stats, g, "negative")
                     = Cardinality(RowsOf(df_existing, g))
                        + Cardinality(RowsOf(mem.earlier \o all_new_reviews, g)))
    /\ [][(prog = "steam3") =>
            /\ (pc = "return") => (collected'[review_type] = Len(reviews))
            /\ (pc = "return" /\ pc' \in {"game", "save"}) =>
                  \A c \in {"positive", "negative"} :
                     StatCount(game_stats', GAME_IDS[gi], c)
                        = StatCount(game_stats, GAME_IDS[gi], c) + collected'[c]
            /\ (pc # "return" /\ pc # "start") => (game_stats' = game_stats)
            /\ (pc = "game"
                  /\ \A c \in {"positive", "negative"} :
                        StatCount(game_stats, GAME_IDS[gi], c)
                           >= target_per_game \div 2)
                 => (pc' \in {"game", "save"} /\ requests' = requests)]_vars

\* the second pass comes to a game whose two quotas the first pass filled
\* with records it accepted
C28_Witness ==
    /\ prog = "steam3" /\ run = 2 /\ pc = "game" /\ gi = 1
    /\ target_per_game >= 2
    /\ mem.earlier # <<>>
    /\ \A c \in {"positive", "negative"} :
          /\ StatCount(game_stats, GAME_IDS[1], c) = target_per_game \div 2
          /\ LoadedCount(GAME_IDS[1], c) < target_per_game \div 2

\* ---------------------------------------------------------------------
\* fix_genres.main: the genre cache. data is the input table; a game_name
\* cell is missing or a text of tokens, a title being a text without
\* whitespace around it. mem.cache is the dict cache, mem.loaded the cache
\* as read from the cache file, mem.lookups the lookup_genres_rawg calls
\* made, each with its title and its return value.

MaxCacheRows == 3

NOT_AVAILABLE == "N/A"

Titles == {<<"t1">>, <<"t2">>}

\* what lookup_genres_rawg returns: None, genres, or tags
LookupValues == {"None", "genres", "tags"}

\* Series.unique(): the values in the order of their first appearance
Unique(s) ==
    LET index == SelectSeq([i \in 1..Len(s) |-> i],
                           LAMBDA i : \A j \in 1..(i - 1) : s[j] # s[i])
    IN [k \in 1..Len(index) |-> s[index[k]]]

\* unique titles taken without stripping them
UniqueTitles_raw(rows) ==
    LET present == SelectSeq(rows, LAMBDA row : ~row.game_name.na)
    IN Unique([i \in 1..Len(present) |-> present[i].game_name.text])

\* df["game_name"].dropna().astype(str).str.strip().unique()
UniqueTitles(rows) ==
    LET present == SelectSeq(rows, LAMBDA row : ~row.game_name.na)
    IN Unique([i \in 1..Len(present) |-> Strip(present[i].game_name.text)])

\* [t for t in unique_titles if t not in cache]
NeedLookup(unique_titles, cache) ==
    SelectSeq(unique_titles, LAMBDA t : t \notin DOMAIN cache)

\* str(NaN)
NAN_TEXT == <<"nan">>

\* main up to the lookups: the table and the cache are loaded, the titles
\* to look up are listed
CacheStart ==
    /\ prog = "fix_genres_main" /\ pc = "start"
    /\ LET need_lookup == NeedLookup(UniqueTitles(data), mem.loaded)
       IN /\ mem' = [mem EXCEPT !.cache = mem.loaded,
                                !.need_lookup = need_lookup,
                                !.idx = 1]
          /\ pc' = IF need_lookup = <<>> THEN "map" ELSE "lookup"
    /\ UNCHANGED <<data, prog, run, disk, remote, target_per_game,
                   target_total, existing_reviews, df_existing, game_stats,
                   gi, needed, new_reviews, all_new_reviews, reviews,
                   pages_checked, cursor, duplicates_found, review_type,
                   target_count, collected, max_pages_arg, todo, requests,
                   last>>

\* one iteration of the loop over need_lookup, genres being the return
\* value of lookup_genres_rawg
CacheLookup(genres) ==
    /\ prog = "fix_genres_main" /\ pc = "lookup"
    /\ LET title == mem.need_lookup[mem.idx]
           value == IF genres # "None" THEN genres ELSE NOT_AVAILABLE
       IN IF title \in DOMAIN mem.cache
          THEN mem' = [mem EXCEPT !.idx = mem.idx + 1]
          ELSE mem' = [mem EXCEPT
                         !.idx = mem.idx + 1,
                         !.cache = [t \in DOMAIN mem.cache \cup {title} |->
                                       IF t = title THEN value
                                       ELSE mem.cache[t]],
                         !.lookups = Append(mem.lookups,
                                            [title |-> title,
                                             genres |-> genres])]
    /\ pc' = IF mem.idx = Len(mem.need_lookup) THEN "map" ELSE "lookup"
    /\ UNCHANGED <<data, prog, run, disk, remote, target_per_game,
                   target_total, existing_reviews, df_existing, game_stats,
                   gi, needed, new_reviews, all_new_reviews, reviews,
                   pages_checked, cursor, duplicates_found, review_type,
                   target_count, collected, max_pages_arg, todo, requests,
                   last>>

\* main after the lookups: the genres are mapped onto the rows and the
\* table is written (the cache file is written from mem.cache)
CacheMap ==
    /\ prog = "fix_genres_main" /\ pc = "map"
    /\ LET key(row) == IF row.game_name.na THEN NAN_TEXT
                       ELSE Strip(row.game_name.text)
           genres(row) == IF key(row) \in DOMAIN mem.cache
                          THEN mem.cache[key(row)] ELSE NOT_AVAILABLE
       IN disk' = [disk EXCEPT !.final =
                      File([i \in 1..Len(data) |->
                               [game_name |-> data[i].game_name,
                                genres |-> genres(data[i])]])]
    /\ pc' = "done"
    /\ UNCHANGED <<data, mem, prog, run, remote, target_per_game,
                   target_total, existing_reviews, df_existing, game_stats,
                   gi, needed, new_reviews, all_new_reviews, reviews,
                   pages_checked, cursor, duplicates_found, review_type,
                   target_count, collected, max_pages_arg, todo, requests,
                   last>>

\* --- environment of fix_genres.main

TitleCells ==
    {MissingCell, Cell(<<"t1">>), Cell(<<"_", "t1">>), Cell(<<"t2">>)}

CacheRows == [game_name : TitleCells]

\* the caches a cache file may hold
LoadedCaches ==
    UNION {[K -> {"cached", NOT_AVAILABLE}] : K \in SUBSET Titles}

InitCache ==
    /\ prog = "fix_genres_main"
    /\ run = 1
    /\ disk = NoDisk
    /\ remote = <<>>
    /\ target_per_game = 0
    /\ target_total = 0
    /\ max_pages_arg = 0
    /\ InitFetch
    /\ target_count = 0
    /\ data \in SeqsUpTo(CacheRows, MaxCacheRows)
    /\ \E loaded \in LoadedCaches :
          mem = [loaded |-> loaded, cache |-> loaded, need_lookup |-> <<>>,
                 idx |-> 1, lookups |-> <<>>]
    /\ pc = "start"

CacheLookups == \E genres \in LookupValues : CacheLookup(genres)

NextCache == CacheStart \/ CacheLookups \/ CacheMap

SpecCache == InitCache /\ [][NextCache]_vars

\* C29: a title of the loaded cache is never looked up and keeps its cached
\* value; every other unique title of the input is looked up by one
\* lookup_genres_rawg call and no more; after the run every unique stripped
\* title of the input is a key of the cache, and a lookup that returned
\* None is stored as 'N/A'.
C29_CacheKeepsAndCompletes ==
    (prog = "fix_genres_main") =>
        LET looked == {mem.lookups[i].title : i \in 1..Len(mem.lookups)}
            titles == {Strip(data[i].game_name.text) :
                          i \in {j \in 1..Len(data) : ~data[j].game_name.na}}
        IN /\ \A t \in DOMAIN mem.loaded :
                 /\ t \notin looked
                 /\ t \in DOMAIN mem.cache
                 /\ mem.cache[t] = mem.loaded[t]
           /\ \A i, j \in 1..Len(mem.lookups) :
                 mem.lookups[i].title = mem.lookups[j].title => i = j
           /\ looked \subseteq titles
           /\ \A i \in 1..Len(mem.lookups) :
                 LET l == mem.lookups[i]
                 IN /\ l.title \in DOMAIN mem.cache
                    /\ mem.cache[l.title] =
                          IF l.genres = "None" THEN NOT_AVAILABLE
                          ELSE l.genres
           /\ pc \in {"map", "done"} =>
                 /\ titles \subseteq DOMAIN mem.cache
                 /\ looked = titles \ DOMAIN mem.loaded

\* one title came from the cache file, another was looked up and not found,
\* and the input spells the looked-up title with whitespace around it
C29_Witness ==
    /\ prog = "fix_genres_main" /\ pc = "done"
    /\ DOMAIN mem.loaded # {}
    /\ \E i \in 1..Len(mem.lookups) : mem.lookups[i].genres = "None"
    /\ \E i \in 1..Len(data) :
          /\ ~data[i].game_name.na
          /\ Strip(data[i].game_name.text) # data[i].game_name.text
          /\ Strip(data[i].game_name.text) \notin DOMAIN mem.loaded

====
